---- MODULE Spec2Model ----
(***************************************************************************)
(* Failover coordination between a primary and a secondary PBS server,     *)
(* after src/src/server/failover.c.                                        *)
(*                                                                         *)
(* Two processes run the same file with their own copies of its statics:   *)
(* the primary uses Secondary_connection and goidle_ack, the secondary     *)
(* uses sec_sock, Secondary_state, hd_time and pbs_failover_active.  They  *)
(* share the files svrlive, secondary_active and the wall clock.           *)
(*                                                                         *)
(* Conventions of the model:                                               *)
(*  - time(0) reads the variable clock; the environment advances it to any *)
(*    later instant of Instants.  sleep(n) is not given a duration of its  *)
(*    own: time may pass between any two steps.                            *)
(*  - failures of alloc_br() and add_conn() are not modelled; failures of  *)
(*    connect, send, read, stat, fopen, write, select and of the stonith   *)
(*    program are inputs of the actions.                                   *)
(*  - one connection id stands for both ends of a TCP connection: it is    *)
(*    the secondary's socket and the primary's connection handle.          *)
(***************************************************************************)
EXTENDS Integers, Sequences, FiniteSets, TLC

(***************************************************************************)
(* Bounds of the model.                                                    *)
(***************************************************************************)
\* host identifiers are HostidBits wide (unsigned long in the source)
HostidBits == 3
\* the clock starts at StartTime; Horizon is two handshake periods later and
\* MaxTime is past every takeover deadline
StartTime == 1
Horizon == 11
MaxTime == 303
\* connections the secondary dials in one run; a connection id is not used again
MaxConn == 2
\* messages queued in one direction of a connection
MaxQueue == 1
\* times the primary process is started again
MaxRestarts == 1
\* times the stonith program is run
MaxSkew == 2
MaxMtime == 3
MaxStonith == 2

(***************************************************************************)
(* Program constants.                                                      *)
(***************************************************************************)
SECONDARY_STATE_noconn == -1
SECONDARY_STATE_conn == 0
SECONDARY_STATE_regsent == 1
SECONDARY_STATE_handsk == 3
SECONDARY_STATE_nohsk == 4
SECONDARY_STATE_shutd == 5
SECONDARY_STATE_takeov == 6
SECONDARY_STATE_inact == 7
SECONDARY_STATE_idle == 8
HANDSHAKE_TIME == 5
\* (60 * 5) in the computation of takeov_on_nocontact
TAKEOV_WAIT == 300

(***************************************************************************)
(* Host identifiers as decimal text: sprintf("%ld"), atol(), the cast to   *)
(* unsigned long and the exclusive or of read_reg_reply.                   *)
(***************************************************************************)
RECURSIVE Pow2(_)
Pow2(n) == IF n = 0 THEN 1 ELSE 2 * Pow2(n - 1)

WordMod == Pow2(HostidBits)

Hostids == 0 .. (WordMod - 1)

\* the value of an unsigned long read as a long (two's complement)
AsLong(u) == IF u >= WordMod \div 2 THEN u - WordMod ELSE u

\* (unsigned long) of a long
AsUnsignedLong(l) == l % WordMod

DigitChar == <<"0", "1", "2", "3", "4", "5", "6", "7", "8", "9">>

RECURSIVE Decimal(_)
Decimal(n) ==
    IF n < 10 THEN <<DigitChar[n + 1]>>
    ELSE Decimal(n \div 10) \o <<DigitChar[(n % 10) + 1]>>

\* a variant that drops the sign
sprintf_ld_nosign(u) ==
    LET l == AsLong(u)
    IN  IF l < 0 THEN Decimal(-l) ELSE Decimal(l)

\* sprintf(hostbuf, "%ld", hostidnum): the unsigned long is printed as a long
sprintf_ld(u) ==
    LET l == AsLong(u)
    IN  IF l < 0 THEN <<"-">> \o Decimal(-l) ELSE Decimal(l)

DigitValue(c) == CHOOSE d \in 0..9 : DigitChar[d + 1] = c

IsDigit(c) == \E d \in 0..9 : DigitChar[d + 1] = c

\* the digits at the head of a text, accumulated left to right
RECURSIVE AtolDigits(_, _)
AtolDigits(txt, acc) ==
    IF txt = <<>> \/ ~IsDigit(Head(txt)) THEN acc
    ELSE AtolDigits(Tail(txt), acc * 10 + DigitValue(Head(txt)))

\* atol(): optional sign, then digits; a text with no digits gives 0
atol(txt) ==
    IF txt = <<>> THEN 0
    ELSE IF Head(txt) = "-" THEN -AtolDigits(Tail(txt), 0)
    ELSE IF Head(txt) = "+" THEN AtolDigits(Tail(txt), 0)
    ELSE AtolDigits(txt, 0)

RECURSIVE XorBits(_, _, _)
XorBits(a, b, n) ==
    IF n = 0 THEN 0
    ELSE ((a + b) % 2) + 2 * XorBits(a \div 2, b \div 2, n - 1)

\* hid ^ pbs_get_hostid()
Xor(a, b) == XorBits(a, b, HostidBits)

\* hid = (unsigned long)atol(str); hid = hid ^ pbs_get_hostid();
LicenseValue(txt, own) == Xor(AsUnsignedLong(atol(txt)), own)

(***************************************************************************)
(* State.                                                                  *)
(***************************************************************************)
VARIABLES
    \* environment
    clock,                  \* time(0)
    svrlive,                \* st_mtime of path_svrlive
    marker,                 \* content of path_secondaryact, NoFile if absent
    license_fo,             \* the unsigned long in license.fo, -1 if there is none
    stonith_installed,      \* <home>/server_priv/stonith exists
    capture,                \* the stonith output file exists
    conns,                  \* connections dialed by the secondary
    \* primary process
    p_pc,                   \* position of the primary, see PrimPcs
    p_starts,               \* times the primary was started again
    p_exit,                 \* how the primary process ended last, see PrimExits
    Secondary_connection,   \* static of failover.c in the primary
    goidle_ack,             \* static of failover.c in the primary
    p_sv_state,             \* server.sv_attr[SRV_ATR_State] of the primary
    hs_due,                 \* time of the primary_handshake work task
    hostidnum,              \* host id of the primary
    tk,                     \* the connection of takeover_from_secondary and its request
    \* secondary process
    s_pc,                   \* position of the secondary, see SecPcs
    Secondary_state,
    sec_sock,
    hd_time,
    loop,                   \* loop of be_secondary, kept modulo 3
    sbloop,
    sbtime,
    mytime,
    takeov_on_nocontact,
    secondary_delay,
    delay,                  \* the parameter of be_secondary
    rc,                     \* rc of be_secondary
    pbs_failover_active,
    s_sv_state,             \* server.sv_attr[SRV_ATR_State] of the secondary
    s_exit,                 \* exit code of the secondary, -1 if none
    sec_hostid,             \* pbs_get_hostid() of the secondary
    saved_takeover_req,     \* a request is saved in saved_takeover_req
    \* history
    fence_ok_while_up,      \* check_and_invoke_stonith returned 0 with the primary not down
    stonith_runs,           \* times check_and_invoke_stonith called system()
    fopen_failed,           \* fopen(path_secondaryact, "w") returned NULL
    stat_rc,                \* what the last stat(path_svrlive, &sb) of be_secondary returned
    told_inactive,          \* FAILOVER_SecdGoInactive was handled and no dial succeeded since
    dial_tried,             \* the last NOHSK tick of be_secondary called alt_conn
    hook_exit,              \* what system() returned in the TAKEOV tick that is ending
    drequest_handle,        \* the handle failover_send_shutdown sent on or closed, if any
    skew,                   \* what a second reader's stat adds to every st_mtime
    twin,                   \* that reader's Secondary_state, sbtime, mytime and sbloop
    submit                  \* a client's call of pbs_submit or pbs_submit_with_cred

envVars == <<clock, svrlive, marker, license_fo, stonith_installed, capture>>
pStatics == <<Secondary_connection, goidle_ack>>
pVars == <<p_pc, p_starts, p_exit, pStatics, p_sv_state, hs_due, hostidnum>>
sStatics == <<Secondary_state, sec_sock, hd_time>>
sLocals == <<loop, sbloop, sbtime, mytime, takeov_on_nocontact, secondary_delay,
             delay, rc>>
sOther == <<pbs_failover_active, s_sv_state, s_exit, sec_hostid, saved_takeover_req>>
history == <<fence_ok_while_up, stonith_runs, fopen_failed, stat_rc, told_inactive,
             dial_tried, drequest_handle,
                   hook_exit, skew, twin, submit>>
vars == <<envVars, conns, tk, pVars, s_pc, sStatics, sLocals, sOther, history>>

NoFile == "absent"
server_host == "secondary-host"

ConnId == 0 .. (MaxConn - 1)

\* the instants at which the clock is read
Instants == {StartTime, Horizon, MaxTime}

\* positions of the secondary: at the head of the loop of be_secondary, in one
\* of its wait_request calls, after one, returned from be_secondary as the
\* active server, exited, or replaced by a new process image
SecPcs == {"loop", "wait", "tksleep", "tkwait", "tkdone", "inactwait", "inactdone",
           "active", "exited", "recycled"}

\* positions of the primary: in its main loop ("up"; "shutwait" with
\* SV_STATE_PRIMDLY set), in wait_request(600) of takeover_from_secondary,
\* returned 0 from takeover_from_secondary, or not running
PrimPcs == {"up", "shutwait", "tfs_wait", "tfs_ret0", "down"}

\* how the primary process ended: not yet, by exit(n), by leaving its main
\* loop to be started again, or without a word
PrimExits == {"none", "exit(0)", "exit(1)", "exit(2)", "exit(nonzero)", "recycle", "killed"}

\* how the connection of takeover_from_secondary stands: not there, the
\* request sent, the request saved by the secondary, the reply sent
TkStates == {"none", "sent", "saved", "acked"}

(***************************************************************************)
(* Messages and connections.                                               *)
(***************************************************************************)
Req(tag) ==
    [kind |-> "req", tag |-> tag, code |-> "PBSE_NONE", choice |-> "NULL", str |-> <<>>]

Reply(code, choice, str) ==
    [kind |-> "reply", tag |-> "none", code |-> code, choice |-> choice, str |-> str]

\* a connection id that was not dialed yet
FreeConn ==
    [used |-> FALSE, s_open |-> FALSE, p_open |-> FALSE, to_s |-> <<>>, to_p |-> <<>>,
     s_authen |-> {}, s_func |-> "none",
     p_authen |-> {}, p_func |-> "none", p_closefunc |-> "none"]

\* a connection both ends of which are closed
DeadConn == [FreeConn EXCEPT !.used = TRUE]

\* close_conn() in the secondary
CloseS(cs, c) ==
    IF c \notin ConnId \/ ~cs[c].used THEN cs
    ELSE IF ~cs[c].p_open THEN [cs EXCEPT ![c] = DeadConn]
    ELSE [cs EXCEPT ![c].s_open = FALSE, ![c].to_s = <<>>,
                    ![c].s_authen = {}, ![c].s_func = "none"]

\* the primary's end of a connection goes away
CloseP(cs, c) ==
    IF c \notin ConnId \/ ~cs[c].used THEN cs
    ELSE IF ~cs[c].s_open THEN [cs EXCEPT ![c] = DeadConn]
    ELSE [cs EXCEPT ![c].p_open = FALSE, ![c].to_p = <<>>, ![c].p_authen = {},
                    ![c].p_func = "none", ![c].p_closefunc = "none"]

\* every connection of the primary goes away with its process
RECURSIVE CloseAllP(_, _)
CloseAllP(cs, n) == IF n = 0 THEN cs ELSE CloseAllP(CloseP(cs, n - 1), n - 1)

FreeIds(cs) == {c \in ConnId : ~cs[c].used}

LowestFree(cs) == CHOOSE c \in FreeIds(cs) : \A d \in FreeIds(cs) : c <= d

\* client_to_svr() / alt_conn() towards the primary: the socket, or -1.
\* A connect can fail whatever the state of the primary.
DialResults(cs, ppc) ==
    {-1} \cup (IF ppc \in {"up", "shutwait"} /\ FreeIds(cs) # {} THEN {LowestFree(cs)} ELSE {})

\* add_conn(sock, ToServerDIS, primaddr, 0, NULL, read_reg_reply) and
\* conn->cn_authen |= PBS_NET_CONN_AUTHENTICATED; the primary accepts
Connected(cs, c) ==
    [cs EXCEPT ![c] = [FreeConn EXCEPT !.used = TRUE, !.s_open = TRUE, !.p_open = TRUE,
                                       !.s_func = "read_reg_reply",
                                       !.s_authen = {"AUTHENTICATED"},
                                       !.p_func = "process_request"]]

\* a send towards the secondary that did not fail: queued if the peer is there
SendToS(cs, c, m) ==
    IF cs[c].s_open THEN [cs EXCEPT ![c].to_s = Append(@, m)] ELSE cs

SendToP(cs, c, m) ==
    IF cs[c].p_open THEN [cs EXCEPT ![c].to_p = Append(@, m)] ELSE cs

\* a send can fail at any time; it fails when the queue is full
SendResults(q) == IF Len(q) < MaxQueue THEN {TRUE, FALSE} ELSE {FALSE}

(***************************************************************************)
(* Initial state: the primary is up and has run primary_handshake once;    *)
(* the secondary has run be_secondary up to its state machine.             *)
(***************************************************************************)
\* d is the delay be_secondary is called with (-1 asks for a takeover at
\* once), installed tells whether the stonith program exists
\* what the NOHSK case of be_secondary reads and writes
NohskLocals(st, sb, my, sbl) == [state |-> st, sbtime |-> sb, mytime |-> my, sbloop |-> sbl]

InitCommon(d, installed) ==
    /\ clock = StartTime
    /\ svrlive = StartTime
    /\ marker = NoFile
    /\ license_fo = -1
    /\ stonith_installed = installed
    /\ capture = FALSE
    /\ conns = [c \in ConnId |-> FreeConn]
    /\ p_pc = "up"
    /\ p_starts = 0
    /\ p_exit = "none"
    /\ Secondary_connection = -1
    /\ goidle_ack = 0
    /\ p_sv_state = "SV_STATE_RUN"
    /\ hs_due = StartTime + HANDSHAKE_TIME
    /\ s_pc = "loop"
    /\ sec_sock = -1
    /\ hd_time = StartTime
    /\ loop = 0
    /\ sbloop = 0
    /\ sbtime = 0
    /\ mytime = 0
    /\ delay = d
    /\ secondary_delay = (IF d = -1 THEN 0 ELSE d)
    /\ takeov_on_nocontact = StartTime + TAKEOV_WAIT + (IF d = -1 THEN 0 ELSE d)
    /\ rc = 0
    /\ pbs_failover_active = 0
    /\ s_sv_state = "SV_STATE_RUN"
    /\ s_exit = -1
    /\ saved_takeover_req = FALSE
    /\ tk = "none"
    /\ fence_ok_while_up = FALSE
    /\ stonith_runs = 0
    /\ fopen_failed = FALSE
    /\ stat_rc = 0
    /\ told_inactive = FALSE
    /\ dial_tried = FALSE
    /\ drequest_handle = -1
    /\ hook_exit = 0

\* no call of the client library is under way
NoSubmit ==
    [pc |-> "none", entry |-> "none", script |-> FALSE, credlen |-> 0,
     th_cred_info |-> FALSE, cred_len |-> 0, found |-> 0, locks |-> 0,
     acquired |-> 0, unlocks |-> 0, unlock_failed |-> FALSE,
     steps |-> <<>>, ok_steps |-> <<>>, return_jobid |-> "NULL", result |-> "none",
     ret |-> "none"]

InitWith(d, installed) ==
    /\ InitCommon(d, installed)
    /\ submit = NoSubmit
    /\ Secondary_state = SECONDARY_STATE_noconn
    /\ skew = 0
    /\ twin = NohskLocals(SECONDARY_STATE_noconn, 0, 0, 0)

\* a secondary delay of one second, the stonith program installed
Init ==
    /\ InitWith(1, TRUE)
    /\ hostidnum = WordMod - 2
    /\ sec_hostid = 3

\* no stonith program
InitNoStonith ==
    /\ InitWith(1, FALSE)
    /\ hostidnum = WordMod - 2
    /\ sec_hostid = 3

\* the secondary is started with a delay of -1
InitStartActive ==
    /\ InitWith(-1, TRUE)
    /\ hostidnum = WordMod - 2
    /\ sec_hostid = 3

\* two readers of the liveness file in NOHSK, the second of which sees
\* every st_mtime later by skew
InitSkew ==
    /\ InitCommon(1, TRUE)
    /\ hostidnum = WordMod - 2
    /\ sec_hostid = 3
    /\ Secondary_state = SECONDARY_STATE_nohsk
    /\ submit = NoSubmit
    /\ skew \in 0 .. MaxSkew
    /\ twin = NohskLocals(SECONDARY_STATE_nohsk, 0, 0, 0)

\* any pair of host identifiers
InitHostid ==
    /\ InitWith(1, TRUE)
    /\ hostidnum \in Hostids
    /\ sec_hostid \in Hostids

(***************************************************************************)
(* Time.                                                                   *)
(***************************************************************************)
\* time_now = time(0) at the head of the loop of be_secondary, and the
\* time_now of the primary's main loop when it runs its work tasks
time_now == clock

Tick(instants) ==
    /\ \E t \in instants : t > clock /\ clock' = t
    /\ UNCHANGED <<svrlive, marker, license_fo, stonith_installed, capture, conns,
                   tk, pVars, s_pc, sStatics, sLocals, sOther, history>>

TimePasses == Tick(Instants)

\* the clock read every second of the first two handshake periods
TimePassesBySeconds == Tick(StartTime .. Horizon)

\* the clock read every second around takeov_on_nocontact
TimePassesAroundDeadline == Tick((MaxTime - 2) .. MaxTime)

\* the clock read every second around the end of the second handshake period
TimePassesAroundHorizon == Tick((Horizon - 1) .. (Horizon + 2))

(***************************************************************************)
(* The fencing hook.                                                       *)
(***************************************************************************)
\* what the environment answers to one call of check_and_invoke_stonith:
\* errno of stat(stonith_fl), the exit code of system(), and how far the
\* reading of the output file gets
StonithInputs(installed) ==
    IF installed
    THEN [stat : {"ok", "other"}, exit : {0, 1},
          out : {"logged", "open_failed", "fstat_failed", "malloc_failed", "read_failed"}]
    ELSE [stat : {"ENOENT"}, exit : {127}, out : {"open_failed"}]
         \cup [stat : {"other"}, exit : {127},
               out : {"logged", "open_failed", "fstat_failed", "malloc_failed",
                      "read_failed"}]

\* a variant that takes a missing program for a failure
check_and_invoke_stonith_absent_fails(in, had_capture) ==
    IF in.stat = "ENOENT"
    THEN [ret |-> -1, ran |-> FALSE, capture |-> had_capture]
    ELSE IF in.out = "malloc_failed"
    THEN [ret |-> -1, ran |-> TRUE, capture |-> FALSE]
    ELSE IF in.out = "read_failed"
    THEN [ret |-> -1, ran |-> TRUE, capture |-> TRUE]
    ELSE [ret |-> (IF in.exit # 0 THEN -1 ELSE 0), ran |-> TRUE, capture |-> FALSE]

\* check_and_invoke_stonith(node) for a node that is not NULL:
\* ret is the value returned, ran tells that system() was called, and
\* capture that the output file exists on return
check_and_invoke_stonith(in, had_capture) ==
    IF in.stat = "ENOENT"
    THEN [ret |-> 0, ran |-> FALSE, capture |-> had_capture]
    ELSE IF in.out = "malloc_failed"
    THEN [ret |-> -1, ran |-> TRUE, capture |-> FALSE]
    ELSE IF in.out = "read_failed"
    THEN [ret |-> -1, ran |-> TRUE, capture |-> TRUE]
    ELSE [ret |-> (IF in.exit # 0 THEN -1 ELSE 0), ran |-> TRUE, capture |-> FALSE]

(***************************************************************************)
(* The primary process goes away: crash, kill by the fencing program, or   *)
(* exit.  Its sockets close; its statics are those of a fresh process.     *)
(***************************************************************************)
PrimaryGone(cs, code) ==
    /\ p_pc' = "down"
    /\ p_exit' = code
    /\ conns' = CloseAllP(cs, MaxConn)
    /\ Secondary_connection' = -1
    /\ goidle_ack' = 0
    /\ p_sv_state' = "SV_STATE_DOWN"
    /\ tk' = (IF tk = "acked" THEN "none" ELSE tk)
    /\ UNCHANGED <<p_starts, hs_due, hostidnum>>

(***************************************************************************)
(* be_secondary: one action for each case of the switch.  Every case       *)
(* starts at the head of the loop (time_now = time(0); ++loop) and ends in *)
(* wait_request(1), except the return from takeov.                         *)
(***************************************************************************)
LoopHead(st) ==
    /\ s_pc = "loop"
    /\ Secondary_state \in st
    /\ loop' = (loop + 1) % 3

\* a variant that always waits for the deadline
CanTakeOver_deadline_only(st, d, now, deadline) ==
    st = SECONDARY_STATE_noconn /\ now > deadline

\* (Secondary_state == SECONDARY_STATE_noconn) &&
\* ((delay == (time_t)-1) || (time_now > takeov_on_nocontact))
\* a variant with >= for >
CanTakeOver_inclusive(st, d, now, deadline) ==
    st = SECONDARY_STATE_noconn /\ (d = -1 \/ now >= deadline)

CanTakeOver(st, d, now, deadline) ==
    st = SECONDARY_STATE_noconn /\ (d = -1 \/ now > deadline)

be_secondary_noconn ==
    /\ LoopHead({SECONDARY_STATE_noconn, SECONDARY_STATE_idle})
    /\ sbloop' = 0
    /\ sbtime' = 0
    /\ mytime' = 0
    /\ LET cs == IF sec_sock >= 0 THEN CloseS(conns, sec_sock) ELSE conns
       IN  \E s \in DialResults(cs, p_pc) :
             IF s < 0
             THEN /\ sec_sock' = -1
                  /\ conns' = cs
                  /\ Secondary_state' =
                        IF CanTakeOver(Secondary_state, delay, time_now,
                                       takeov_on_nocontact)
                        THEN SECONDARY_STATE_takeov
                        ELSE Secondary_state
             ELSE /\ sec_sock' = s
                  /\ conns' = Connected(cs, s)
                  /\ Secondary_state' = SECONDARY_STATE_conn
    /\ told_inactive' = (told_inactive /\ sec_sock' < 0)
    /\ s_pc' = "wait"
    /\ UNCHANGED <<envVars, tk, pVars, hd_time, takeov_on_nocontact, secondary_delay,
                   delay, rc, sOther, fence_ok_while_up, stonith_runs, fopen_failed,
                   stat_rc, dial_tried, drequest_handle,
                   hook_exit, skew, twin, submit>>

be_secondary_conn ==
    /\ LoopHead({SECONDARY_STATE_conn})
    /\ \E ok \in SendResults(conns[sec_sock].to_p) :
          IF ok
          THEN /\ conns' = SendToP(conns, sec_sock, Req("FAILOVER_Register"))
               /\ Secondary_state' = SECONDARY_STATE_regsent
               /\ sec_sock' = sec_sock
          ELSE /\ conns' = CloseS(conns, sec_sock)
               /\ Secondary_state' = SECONDARY_STATE_noconn
               /\ sec_sock' = -1
    /\ s_pc' = "wait"
    /\ UNCHANGED <<envVars, tk, pVars, hd_time, sbloop, sbtime, mytime,
                   takeov_on_nocontact, secondary_delay, delay, rc, sOther,
                   history>>

be_secondary_regsent ==
    /\ LoopHead({SECONDARY_STATE_regsent})
    /\ s_pc' = "wait"
    /\ UNCHANGED <<envVars, conns, tk, pVars, sStatics, sbloop, sbtime, mytime,
                   takeov_on_nocontact, secondary_delay, delay, rc, sOther,
                   history>>

\* a variant with > for >=
HandshakeOverdue_strict(now, hd) == now > hd + 2 * HANDSHAKE_TIME

\* time_now >= (hd_time + 2 * HANDSHAKE_TIME)
HandshakeOverdue(now, hd) == now >= hd + 2 * HANDSHAKE_TIME

be_secondary_handsk ==
    /\ LoopHead({SECONDARY_STATE_handsk})
    /\ Secondary_state' =
          IF HandshakeOverdue(time_now, hd_time)
          THEN SECONDARY_STATE_nohsk
          ELSE Secondary_state
    /\ s_pc' = "wait"
    /\ UNCHANGED <<envVars, conns, tk, pVars, sec_sock, hd_time, sbloop, sbtime, mytime,
                   takeov_on_nocontact, secondary_delay, delay, rc, sOther,
                   history>>

\* a variant with >= for >
Stagnant_never(now, my, dly) == FALSE

Stagnant_inclusive(now, my, dly) == now >= my + dly

\* time_now > (mytime + secondary_delay)
Stagnant(now, my, dly) == now > my + dly

\* a variant that holds the mtime against the reader's own clock
MtimeChanged_against_clock(mt, sb, now) == mt > sb /\ mt >= now

\* sb.st_mtime > sbtime
MtimeChanged(mt, sb, now) == mt > sb

\* case SECONDARY_STATE_nohsk, stat(path_svrlive, &sb) == 0 with st_mtime mt
nohsk_stat_ok(mt, r, now, dly, sock) ==
    IF MtimeChanged(mt, r.sbtime, now)
    THEN [sbtime |-> mt,
          mytime |-> now,
          sbloop |-> IF r.sbloop > 4 THEN r.sbloop ELSE r.sbloop + 1,
          state |-> IF r.sbloop > 4 /\ sock = -1
                    THEN SECONDARY_STATE_noconn
                    ELSE r.state]
    ELSE [r EXCEPT !.state = IF Stagnant(now, r.mytime, dly)
                             THEN SECONDARY_STATE_takeov
                             ELSE r.state]

\* a variant that tries on every tick without a socket
QuickReconnectDue_every_tick(sock, lp) == sock = -1

\* (sec_sock == -1) && ((loop % 3) == 0)
QuickReconnectDue(sock, lp) == sock = -1 /\ lp = 0

be_secondary_nohsk ==
    /\ LoopHead({SECONDARY_STATE_nohsk})
    /\ \E stat_ok \in BOOLEAN :
       /\ stat_rc' = IF stat_ok THEN 0 ELSE -1
       /\ IF stat_ok
          THEN LET r == nohsk_stat_ok(svrlive,
                                      NohskLocals(Secondary_state, sbtime, mytime, sbloop),
                                      time_now, secondary_delay, sec_sock)
               IN  /\ Secondary_state' = r.state
                   /\ sbtime' = r.sbtime
                   /\ mytime' = r.mytime
                   /\ sbloop' = r.sbloop
                   /\ UNCHANGED <<sec_sock, conns>>
          ELSE IF time_now > hd_time + secondary_delay
               THEN /\ Secondary_state' = SECONDARY_STATE_noconn
                    /\ UNCHANGED <<sbtime, mytime, sbloop, sec_sock, conns>>
               ELSE IF QuickReconnectDue(sec_sock, loop')
               THEN \E s \in DialResults(conns, p_pc) :
                       /\ sec_sock' = s
                       /\ conns' = IF s >= 0 THEN Connected(conns, s) ELSE conns
                       /\ Secondary_state' =
                             IF s >= 0 THEN SECONDARY_STATE_conn ELSE Secondary_state
                       /\ UNCHANGED <<sbtime, mytime, sbloop>>
               ELSE UNCHANGED <<Secondary_state, sbtime, mytime, sbloop, sec_sock, conns>>
    /\ told_inactive' = (told_inactive /\ ~(sec_sock < 0 /\ sec_sock' >= 0))
    /\ dial_tried' = (stat_rc' = -1 /\ ~(time_now > hd_time + secondary_delay)
                         /\ QuickReconnectDue(sec_sock, loop'))
    /\ s_pc' = "wait"
    /\ UNCHANGED <<envVars, tk, pVars, hd_time, takeov_on_nocontact, secondary_delay,
                   delay, rc, sOther, fence_ok_while_up, stonith_runs, fopen_failed,
                   drequest_handle,
                   hook_exit, skew, twin, submit>>

\* a variant that takes socket 0 for a failure
Reconnected_positive(s) == s > 0

\* if ((sec_sock = alt_conn(primaddr, 8)) >= 0)
Reconnected(s) == s >= 0

\* a variant that does not look at rc
TakesOver_always(ret) == TRUE

\* a variant with the test of rc inverted
TakesOver_inverted(ret) == ret # 0

\* rc = check_and_invoke_stonith(pbs_conf.pbs_primary); if (rc) { ... break; }
TakesOver(ret) == ret = 0

\* case SECONDARY_STATE_takeov: the last dial, the fencing hook, going active
be_secondary_takeov ==
    /\ LoopHead({SECONDARY_STATE_takeov})
    /\ LET cs == IF sec_sock # -1 THEN CloseS(conns, sec_sock) ELSE conns
       IN  \E s \in DialResults(cs, p_pc) :
             /\ sec_sock' = s
             /\ IF Reconnected(s)
                THEN /\ conns' = Connected(cs, s)
                     /\ Secondary_state' = SECONDARY_STATE_conn
                     /\ s_pc' = "wait"
                     /\ UNCHANGED <<marker, capture, tk, pVars, rc, pbs_failover_active,
                                    fence_ok_while_up, stonith_runs, fopen_failed,
                                    hook_exit>>
                ELSE \E in \in StonithInputs(stonith_installed), downs \in BOOLEAN,
                        fopen_ok \in BOOLEAN :
                       LET r == check_and_invoke_stonith(in, capture)
                           \* the program can bring the primary down only if it runs
                           killed == downs /\ r.ran /\ stonith_installed /\ p_pc # "down"
                       IN  /\ r.ran => stonith_runs < MaxStonith
                           /\ stonith_runs' = stonith_runs + (IF r.ran THEN 1 ELSE 0)
                           /\ rc' = r.ret
                           /\ hook_exit' = (IF r.ran THEN in.exit ELSE hook_exit)
                           /\ capture' = r.capture
                           /\ IF killed
                              THEN PrimaryGone(cs, "killed")
                              ELSE conns' = cs /\ UNCHANGED <<tk, pVars>>
                           /\ fence_ok_while_up' =
                                 (fence_ok_while_up \/ (r.ret = 0 /\ p_pc' # "down"))
                           /\ IF TakesOver(r.ret)
                              THEN /\ pbs_failover_active' = 1
                                   /\ marker' = IF fopen_ok THEN server_host ELSE marker
                                   /\ fopen_failed' = (fopen_failed \/ ~fopen_ok)
                                   /\ s_pc' = "active"
                              ELSE /\ s_pc' = "wait"
                                   /\ UNCHANGED <<marker, pbs_failover_active, fopen_failed>>
                           /\ UNCHANGED Secondary_state
    /\ told_inactive' = (told_inactive /\ ~Reconnected(sec_sock'))
    /\ UNCHANGED <<clock, svrlive, license_fo, stonith_installed, hd_time, sbloop,
                   sbtime, mytime, takeov_on_nocontact, secondary_delay, delay,
                   s_sv_state, s_exit, sec_hostid, saved_takeover_req, stat_rc,
                   dial_tried, drequest_handle, skew, twin, submit>>

(***************************************************************************)
(* wait_request(1) at the foot of the loop: it returns after the timeout,  *)
(* fails, or calls the cn_func of the socket that became readable.         *)
(***************************************************************************)
\* the secondary is in wait_request(): at the foot of the loop ("wait"), in
\* req_failover after the reply to SecdTakeOver ("tkwait"), or in the case
\* SECONDARY_STATE_inact ("inactwait")
WaitPcs == {"wait", "tkwait", "inactwait"}

\* where the secondary continues when the wait_request it is in returns
AfterWait(pc) ==
    IF pc = "tkwait" THEN "tkdone" ELSE IF pc = "inactwait" THEN "inactdone" ELSE "loop"

\* what the secondary can read on its socket: a message, or the end of the
\* stream once the primary's end is closed and nothing is left to read
Readable(c) ==
    /\ c \in ConnId
    /\ conns[c].s_open
    /\ (conns[c].to_s # <<>> \/ ~conns[c].p_open)

AtEof(c) == conns[c].to_s = <<>>

wait_request_timeout ==
    /\ s_pc \in WaitPcs
    /\ s_pc' = AfterWait(s_pc)
    /\ hook_exit' = 0
    /\ UNCHANGED <<envVars, conns, tk, pVars, sStatics, sLocals, sOther,
                   fence_ok_while_up, stonith_runs, fopen_failed, stat_rc,
                   told_inactive, dial_tried, drequest_handle, skew, twin, submit>>

\* if (wait_request(1, NULL) == -1)
wait_request_failed ==
    /\ s_pc = "wait"
    /\ Secondary_state' = SECONDARY_STATE_noconn
    /\ conns' = CloseS(conns, sec_sock)
    /\ sec_sock' = -1
    /\ s_pc' = "loop"
    /\ hook_exit' = 0
    /\ UNCHANGED <<envVars, tk, pVars, hd_time, sLocals, sOther,
                   fence_ok_while_up, stonith_runs, fopen_failed, stat_rc,
                   told_inactive, dial_tried, drequest_handle, skew, twin, submit>>

\* exit(code) of the secondary: the process and its sockets are gone
SecondaryExit(cs, code) ==
    /\ s_pc' = "exited"
    /\ s_exit' = code
    /\ conns' = CloseS(cs, sec_sock)

\* a variant that takes the end of the stream for a bad reply in every state
EofInRegsent_never(disrc, st) == FALSE

\* (rc == DIS_EOD) && (Secondary_state == SECONDARY_STATE_regsent)
EofInRegsent(disrc, st) == disrc = "DIS_EOD" /\ st = SECONDARY_STATE_regsent

\* read_reg_reply(sock) in the secondary (goidle_ack is 0 there)
read_reg_reply ==
    /\ s_pc \in WaitPcs
    /\ Readable(sec_sock)
    /\ conns[sec_sock].s_func = "read_reg_reply"
    /\ \E garbled \in BOOLEAN, write \in {"ok", "open_failed", "write_failed"} :
         LET eof == AtEof(sec_sock)
             m == IF eof THEN Reply("PBSE_NONE", "NULL", <<>>)
                  ELSE Head(conns[sec_sock].to_s)
             \* rc of DIS_reply_read
             disrc == IF eof THEN "DIS_EOD" ELSE IF garbled THEN "DIS_PROTO" ELSE "0"
             rest == IF eof THEN conns
                     ELSE [conns EXCEPT ![sec_sock].to_s = Tail(@)]
         IN  IF disrc # "0" \/ m.code # "PBSE_NONE"
             THEN IF EofInRegsent(disrc, Secondary_state)
                  THEN /\ Secondary_state' = SECONDARY_STATE_takeov
                       /\ s_pc' = AfterWait(s_pc)
                       /\ conns' = rest
                       /\ UNCHANGED <<hd_time, license_fo, s_exit>>
                  ELSE /\ SecondaryExit(conns, 1)
                       /\ UNCHANGED <<Secondary_state, hd_time, license_fo>>
             ELSE IF m.choice # "Text" \/ m.str = <<>>
             THEN /\ Secondary_state' = SECONDARY_STATE_noconn
                  /\ s_pc' = AfterWait(s_pc)
                  /\ conns' = rest
                  /\ UNCHANGED <<hd_time, license_fo, s_exit>>
             ELSE /\ Secondary_state' = SECONDARY_STATE_handsk
                  /\ hd_time' = clock
                  /\ IF write = "ok"
                     THEN /\ license_fo' = LicenseValue(m.str, sec_hostid)
                          /\ conns' = [rest EXCEPT ![sec_sock].s_func = "read_fo_request"]
                          /\ s_pc' = AfterWait(s_pc)
                          /\ UNCHANGED s_exit
                     ELSE \* O_TRUNC has emptied the file if it was opened
                          /\ SecondaryExit(conns, 1)
                          /\ license_fo' = IF write = "open_failed" THEN license_fo ELSE -1
    /\ UNCHANGED <<clock, svrlive, marker, stonith_installed, capture, tk, pVars, sec_sock,
                   sLocals, pbs_failover_active, s_sv_state, sec_hostid, saved_takeover_req,
                   history>>

\* req_failover(preq) in the secondary, for the requests the primary sends on
\* the registered connection; reply_send() of an acknowledgement the primary
\* waits for is queued, the one of a handshake is freed by rel_handshake
\* sprintf(hostbuf, "%ld", hostidnum); reply_text(preq, PBSE_NONE, hostbuf)
RegisterReply(hid) == Reply("PBSE_NONE", "Text", sprintf_ld(hid))

\* conn->cn_func = process_Dreply
RegisterCnFunc == "process_Dreply"

\* the peer of the secondary's connection sends a request that a primary
\* does not send: FAILOVER_Register, or a tag that req_failover does not know
stray_request ==
    /\ sec_sock \in ConnId
    /\ conns[sec_sock].s_open /\ conns[sec_sock].p_open
    /\ conns[sec_sock].s_func = "read_fo_request"
    /\ conns[sec_sock].to_s = <<>> /\ conns[sec_sock].to_p = <<>>
    /\ \E tag \in {"FAILOVER_Register", "FAILOVER_Unknown"} :
          conns' = SendToS(conns, sec_sock, Req(tag))
    /\ UNCHANGED <<envVars, tk, pVars, s_pc, sStatics, sLocals, sOther, history>>

req_failover_secondary(m) ==
    CASE m.tag = "FAILOVER_HandShake" ->
            /\ hd_time' = clock
            /\ Secondary_state' =
                  IF Secondary_state = SECONDARY_STATE_nohsk
                  THEN SECONDARY_STATE_handsk
                  ELSE Secondary_state
            /\ conns' = [conns EXCEPT ![sec_sock].to_s = Tail(@)]
            /\ s_pc' = AfterWait(s_pc)
            /\ UNCHANGED s_exit
      [] m.tag = "FAILOVER_SecdShutdown" ->
            /\ SecondaryExit(SendToP(conns, sec_sock, Reply("PBSE_NONE", "NULL", <<>>)), 0)
            /\ UNCHANGED <<hd_time, Secondary_state>>
      [] m.tag = "FAILOVER_SecdGoInactive" ->
            /\ Secondary_state' = SECONDARY_STATE_inact
            /\ conns' = SendToP([conns EXCEPT ![sec_sock].to_s = Tail(@)], sec_sock,
                                Reply("PBSE_NONE", "NULL", <<>>))
            /\ s_pc' = AfterWait(s_pc)
            /\ UNCHANGED <<hd_time, s_exit>>
      [] m.tag = "FAILOVER_SecdTakeOver" ->
            \* sleep(10) comes first, see req_failover_takeover_reply
            /\ conns' = [conns EXCEPT ![sec_sock].to_s = Tail(@)]
            /\ s_pc' = "tksleep"
            /\ UNCHANGED <<Secondary_state, hd_time, s_exit>>
      [] m.tag = "FAILOVER_Register" ->
            \* the case FAILOVER_Register does not look at the role of the
            \* process; the Secondary_connection of the secondary is -1 here,
            \* its close function having run on every close_conn(sec_sock)
            /\ conns' = SendToP(
                  [conns EXCEPT ![sec_sock].to_s = Tail(@),
                                ![sec_sock].s_authen = @ \cup {"NOTIMEOUT"},
                                ![sec_sock].s_func = RegisterCnFunc],
                  sec_sock, RegisterReply(sec_hostid))
            /\ s_pc' = AfterWait(s_pc)
            /\ UNCHANGED <<Secondary_state, hd_time, s_exit>>
      [] m.tag = "FAILOVER_Unknown" ->
            \* default: err = 1; req_reject(PBSE_SYSTEM, 0, preq)
            /\ conns' = SendToP([conns EXCEPT ![sec_sock].to_s = Tail(@)], sec_sock,
                                Reply("PBSE_SYSTEM", "NULL", <<>>))
            /\ s_pc' = AfterWait(s_pc)
            /\ UNCHANGED <<Secondary_state, hd_time, s_exit>>

\* a variant that leaves the state alone at the end of the stream
StateAfterEof_unchanged(st) == st

\* if ((Secondary_state != SECONDARY_STATE_inact) &&
\*     (Secondary_state != SECONDARY_STATE_noconn))
\*         Secondary_state = SECONDARY_STATE_nohsk;
StateAfterEof(st) ==
    IF st \notin {SECONDARY_STATE_inact, SECONDARY_STATE_noconn}
    THEN SECONDARY_STATE_nohsk
    ELSE st

\* read_fo_request(conn) in the secondary
read_fo_request ==
    /\ s_pc \in WaitPcs
    /\ Readable(sec_sock)
    /\ conns[sec_sock].s_func = "read_fo_request"
    /\ \E garbled \in BOOLEAN :
         IF AtEof(sec_sock)
         THEN /\ Secondary_state' = StateAfterEof(Secondary_state)
              /\ conns' = CloseS(conns, sec_sock)
              /\ sec_sock' = -1
              /\ s_pc' = AfterWait(s_pc)
              /\ UNCHANGED <<hd_time, s_exit>>
         ELSE IF garbled
         THEN /\ Secondary_state' = SECONDARY_STATE_noconn
              /\ conns' = CloseS(conns, sec_sock)
              /\ sec_sock' = -1
              /\ s_pc' = AfterWait(s_pc)
              /\ UNCHANGED <<hd_time, s_exit>>
         ELSE /\ req_failover_secondary(Head(conns[sec_sock].to_s))
              /\ UNCHANGED sec_sock
    /\ told_inactive' = (told_inactive \/ Secondary_state' = SECONDARY_STATE_inact)
    /\ UNCHANGED <<envVars, tk, pVars, sLocals, pbs_failover_active, s_sv_state, sec_hostid,
                   saved_takeover_req, fence_ok_while_up, stonith_runs, fopen_failed,
                   stat_rc, dial_tried, drequest_handle,
                   hook_exit, skew, twin, submit>>

\* req_failover, case FAILOVER_SecdTakeOver, from the return of sleep(10) to
\* wait_request(600): the state is set and then the request is acknowledged
req_failover_takeover_reply ==
    /\ s_pc = "tksleep"
    /\ Secondary_state' = SECONDARY_STATE_takeov
    /\ conns' = SendToP(conns, sec_sock, Reply("PBSE_NONE", "NULL", <<>>))
    /\ s_pc' = "tkwait"
    /\ UNCHANGED <<envVars, tk, pVars, sec_sock, hd_time, sLocals, sOther, history>>

\* req_failover, case FAILOVER_SecdTakeOver, after wait_request(600) returned
req_failover_takeover_done ==
    /\ s_pc = "tkdone"
    /\ conns' = IF sec_sock # -1 THEN CloseS(conns, sec_sock) ELSE conns
    /\ sec_sock' = -1
    /\ s_pc' = "loop"
    /\ UNCHANGED <<envVars, tk, pVars, Secondary_state, hd_time, sLocals, sOther,
                   history>>

\* case SECONDARY_STATE_inact: up to wait_request(600)
be_secondary_inact ==
    /\ LoopHead({SECONDARY_STATE_inact})
    /\ s_pc' = "inactwait"
    /\ UNCHANGED <<envVars, conns, tk, pVars, sStatics, sbloop, sbtime, mytime,
                   takeov_on_nocontact, secondary_delay, delay, rc, sOther,
                   history>>

\* case SECONDARY_STATE_inact: after wait_request(600) returned
be_secondary_inact_done ==
    /\ s_pc = "inactdone"
    /\ conns' = CloseS(conns, sec_sock)
    /\ sec_sock' = -1
    /\ Secondary_state' = SECONDARY_STATE_idle
    /\ s_pc' = "wait"
    /\ UNCHANGED <<envVars, tk, pVars, hd_time, sLocals, sOther, history>>

(***************************************************************************)
(* The primary.                                                            *)
(***************************************************************************)
PrimaryRuns == p_pc \in {"up", "shutwait"}

\* close_conn(c) in the primary: the close function registered with
\* net_add_close_func runs, close_secondary clears the handle if it is c's
close_secondary(c) ==
    IF c \in ConnId /\ conns[c].p_closefunc = "close_secondary" /\ Secondary_connection = c
    THEN -1
    ELSE Secondary_connection

\* a variant that never finds the file
SecondaryActiveFound_never(mk) == FALSE

\* stat(path_secondaryact, &sb) != -1
SecondaryActiveFound(mk) == mk # NoFile

\* a variant that skips every other period
handshake_task_time_late(now) == now + 2 * HANDSHAKE_TIME

\* set_task(WORK_Timed, time_now + HANDSHAKE_TIME, primary_handshake, NULL)
handshake_task_time(now) == now + HANDSHAKE_TIME

\* primary_handshake(pwt), the work task set for hs_due
primary_handshake ==
    /\ PrimaryRuns
    /\ clock >= hs_due
    /\ svrlive' = clock
    /\ IF Secondary_connection >= 0
       THEN /\ \E ok \in SendResults(conns[Secondary_connection].to_s) :
                 IF ok
                 THEN /\ conns' = SendToS(conns, Secondary_connection,
                                          Req("FAILOVER_HandShake"))
                      /\ UNCHANGED Secondary_connection
                 ELSE /\ conns' = CloseP(conns, Secondary_connection)
                      /\ Secondary_connection' = -2
            /\ p_sv_state' = IF SecondaryActiveFound(marker)
                             THEN "SV_STATE_SECIDLE"
                             ELSE p_sv_state
       ELSE UNCHANGED <<conns, Secondary_connection, p_sv_state>>
    /\ hs_due' = handshake_task_time(time_now)
    /\ UNCHANGED <<clock, marker, license_fo, stonith_installed, capture, tk, p_pc,
                   p_starts, p_exit, goidle_ack, hostidnum, s_pc, sStatics, sLocals,
                   sOther, history>>

\* req_failover(preq), case FAILOVER_Register, reached in the primary from
\* process_request for a request read on connection c
\* a variant that leaves the flags of the connection as they are
RegisteredFlags_unmarked(a) == a

\* conn->cn_authen |= PBS_NET_CONN_NOTIMEOUT
RegisteredFlags(a) == a \cup {"NOTIMEOUT"}

\* a variant that takes every handle but -1 for a registered secondary
SecondaryPresent_unless_reset(h) == h # -1

\* a variant that never finds a secondary registered
SecondaryPresent_never(h) == FALSE

\* if (Secondary_connection >= 0): a secondary is registered already
SecondaryPresent(h) == h >= 0

req_failover_Register ==
    /\ PrimaryRuns
    /\ \E c \in ConnId :
         /\ conns[c].p_open
         /\ conns[c].p_func = "process_request"
         /\ conns[c].to_p # <<>>
         /\ Head(conns[c].to_p).tag = "FAILOVER_Register"
         /\ LET read == [conns EXCEPT ![c].to_p = Tail(@)]
            IN  IF SecondaryPresent(Secondary_connection)
                THEN \* err = PBSE_OBJBUSY; ... req_reject(PBSE_SYSTEM, 0, preq)
                     /\ conns' = SendToS(read, c, Reply("PBSE_SYSTEM", "NULL", <<>>))
                     /\ UNCHANGED Secondary_connection
                ELSE /\ Secondary_connection' = c
                     /\ conns' = SendToS(
                           [read EXCEPT ![c].p_authen = RegisteredFlags(@),
                                        ![c].p_func = "process_Dreply",
                                        ![c].p_closefunc = "close_secondary"],
                           c, Reply("PBSE_NONE", "Text", sprintf_ld(hostidnum)))
    /\ UNCHANGED <<envVars, tk, p_pc, p_starts, p_exit, goidle_ack, p_sv_state, hs_due,
                   hostidnum, s_pc, sStatics, sLocals, sOther, history>>

\* the peer answers the secondary's FAILOVER_Register as a server that does
\* not serve failover requests: no text in the reply, or PBSE_UNKREQ
stray_reply ==
    /\ PrimaryRuns
    /\ \E c \in ConnId, code \in {"PBSE_NONE", "PBSE_UNKREQ"} :
         /\ conns[c].p_open
         /\ conns[c].p_func = "process_request"
         /\ conns[c].to_p # <<>>
         /\ Head(conns[c].to_p).tag = "FAILOVER_Register"
         /\ conns' = SendToS([conns EXCEPT ![c].to_p = Tail(@)], c,
                             Reply(code, "NULL", <<>>))
    /\ UNCHANGED <<envVars, tk, pVars, s_pc, sStatics, sLocals, sOther, history>>

\* the primary reads the end of the stream on connection c and closes it
primary_close_conn ==
    /\ PrimaryRuns
    /\ \E c \in ConnId :
         /\ conns[c].p_open
         /\ conns[c].to_p = <<>>
         /\ ~conns[c].s_open
         /\ Secondary_connection' = close_secondary(c)
         /\ conns' = CloseP(conns, c)
    /\ UNCHANGED <<envVars, tk, p_pc, p_starts, p_exit, goidle_ack, p_sv_state, hs_due,
                   hostidnum, s_pc, sStatics, sLocals, sOther, history>>

\* fo_shutdown_reply(pwt), dispatched when the reply of the secondary to a
\* shutdown request is read: SV_STATE_PRIMDLY is cleared, release_req closes
\* the connection, and the main loop of the primary ends
fo_shutdown_reply ==
    /\ p_pc = "shutwait"
    /\ Secondary_connection \in ConnId
    /\ conns[Secondary_connection].p_open
    /\ conns[Secondary_connection].p_func = "process_Dreply"
    /\ conns[Secondary_connection].to_p # <<>>
    /\ Head(conns[Secondary_connection].to_p).kind = "reply"
    /\ PrimaryGone(conns, "exit(0)")
    /\ UNCHANGED <<envVars, s_pc, sStatics, sLocals, sOther, history>>

\* the requests svr_shutdown passes to failover_send_shutdown
ShutdownTypes == {"FAILOVER_SecdShutdown", "FAILOVER_SecdGoInactive",
                  "FAILOVER_SecdTakeOver"}

\* if (Secondary_connection == -1) return (1);
NoSecondary(h) == h = -1

\* failover_send_shutdown(type): on 0 the caller waits for the reply with
\* SV_STATE_PRIMDLY set, on 1 it goes down at once
failover_send_shutdown ==
    /\ p_pc = "up"
    /\ \E type \in ShutdownTypes :
         IF NoSecondary(Secondary_connection)
         THEN PrimaryGone(conns, "exit(0)")
         ELSE \E ok \in (IF Secondary_connection \in ConnId
                         THEN SendResults(conns[Secondary_connection].to_s)
                         ELSE {FALSE}) :
                IF ok
                THEN /\ conns' = SendToS(conns, Secondary_connection, Req(type))
                     /\ p_pc' = "shutwait"
                     /\ p_sv_state' = "SV_STATE_PRIMDLY"
                     /\ UNCHANGED <<p_starts, p_exit, pStatics, hs_due, hostidnum, tk>>
                ELSE \* close_conn(Secondary_connection); Secondary_connection = -2
                     PrimaryGone(CloseP(conns, Secondary_connection), "exit(0)")
    /\ drequest_handle' = (IF NoSecondary(Secondary_connection)
                           THEN drequest_handle
                           ELSE Secondary_connection)
    /\ UNCHANGED <<envVars, s_pc, sStatics, sLocals, sOther, fence_ok_while_up,
                   stonith_runs, fopen_failed, stat_rc, told_inactive, dial_tried,
                   hook_exit, skew, twin, submit>>

\* the main loop of the primary ends when the server state is
\* SV_STATE_SECIDLE, and the process leaves to be started again
PrimaryRecycle ==
    /\ p_pc = "up"
    /\ p_sv_state = "SV_STATE_SECIDLE"
    /\ PrimaryGone(conns, "recycle")
    /\ UNCHANGED <<envVars, s_pc, sStatics, sLocals, sOther, history>>

\* the primary is started while the marker file is there
PrimaryStartsDisplaced ==
    /\ p_pc = "down"
    /\ marker # NoFile
    /\ p_starts < MaxRestarts

\* takeover_from_secondary(), up to wait_request(600).  The active secondary
\* accepts one such connection.
takeover_from_secondary ==
    /\ PrimaryStartsDisplaced
    /\ p_starts' = p_starts + 1
    /\ \E addr_ok \in BOOLEAN, put_ok \in BOOLEAN,
          sock \in {-1} \cup (IF s_pc = "active" /\ tk = "none" THEN {0} ELSE {}) :
         IF ~addr_ok
         THEN p_pc' = "down" /\ p_exit' = "exit(1)" /\ UNCHANGED <<goidle_ack, tk>>
         ELSE IF sock < 0
         THEN p_pc' = "tfs_ret0" /\ p_exit' = "none" /\ UNCHANGED <<goidle_ack, tk>>
         ELSE IF ~put_ok
         THEN p_pc' = "down" /\ p_exit' = "exit(1)" /\ UNCHANGED <<goidle_ack, tk>>
         ELSE /\ goidle_ack' = 1
              /\ tk' = "sent"
              /\ p_pc' = "tfs_wait"
              /\ p_exit' = "none"
    /\ UNCHANGED <<envVars, conns, Secondary_connection, p_sv_state, hs_due, hostidnum,
                   s_pc, sStatics, sLocals, sOther, history>>

\* the primary goes on to run as the active server: it calls
\* primary_handshake while it initialises
PrimaryComesUp ==
    /\ p_pc' = "up"
    /\ p_sv_state' = "SV_STATE_RUN"
    /\ svrlive' = clock
    /\ hs_due' = time_now + HANDSHAKE_TIME

\* the caller of takeover_from_secondary, which returned 0: not being able
\* to dial the secondary is fatal
main_secondary_unreachable ==
    /\ p_pc = "tfs_ret0"
    /\ p_pc' = "down"
    /\ p_exit' = "exit(nonzero)"
    /\ UNCHANGED <<envVars, conns, tk, p_starts, pStatics, p_sv_state, hs_due, hostidnum,
                   s_pc, sStatics, sLocals, sOther, history>>

GoIdleAcked_whatever(t) == TRUE

\* wait_request(600) has called read_reg_reply on the reply to PrimIsBack
GoIdleAcked(t) == t = "acked"

\* takeover_from_secondary(), from wait_request(600) on: read_reg_reply reads
\* the reply if there is one (goidle_ack is 1 there)
takeover_from_secondary_wait ==
    /\ p_pc = "tfs_wait"
    /\ \/ /\ GoIdleAcked(tk)
          /\ \E garbled \in BOOLEAN :
               IF garbled
               THEN /\ p_pc' = "down"
                    /\ p_exit' = "exit(1)"
                    /\ UNCHANGED <<svrlive, p_sv_state, hs_due>>
               ELSE PrimaryComesUp /\ UNCHANGED p_exit
          /\ tk' = "none"
          /\ goidle_ack' = 0
       \/ /\ ~GoIdleAcked(tk)
          /\ p_pc' = "down"
          /\ p_exit' = "exit(2)"
          /\ goidle_ack' = 0
          /\ UNCHANGED <<tk, svrlive, p_sv_state, hs_due>>
    /\ UNCHANGED <<clock, marker, license_fo, stonith_installed, capture, conns, p_starts,
                   Secondary_connection, hostidnum, s_pc, sStatics, sLocals, sOther,
                   history>>

\* a variant that leaves the marker file in place
req_failover_PrimIsBack_keeps_marker ==
    /\ s_pc = "active"
    /\ tk = "sent"
    /\ s_sv_state' = "SV_STATE_SECIDLE"
    /\ saved_takeover_req' = TRUE
    /\ tk' = "saved"
    /\ UNCHANGED <<envVars, conns, pVars, s_pc, sStatics, sLocals, pbs_failover_active,
                   s_exit, sec_hostid, history>>

\* a variant that acknowledges the request at once
req_failover_PrimIsBack_replies ==
    /\ s_pc = "active"
    /\ tk = "sent"
    /\ s_sv_state' = "SV_STATE_SECIDLE"
    /\ marker' = NoFile
    /\ tk' = "acked"
    /\ UNCHANGED <<clock, svrlive, license_fo, stonith_installed, capture, conns, pVars,
                   s_pc, sStatics, sLocals, pbs_failover_active, s_exit, sec_hostid,
                   saved_takeover_req, history>>

\* req_failover(preq), case FAILOVER_PrimIsBack, in the active secondary
req_failover_PrimIsBack ==
    /\ s_pc = "active"
    /\ tk = "sent"
    /\ s_sv_state' = "SV_STATE_SECIDLE"
    /\ marker' = NoFile
    /\ saved_takeover_req' = TRUE
    /\ tk' = "saved"
    /\ UNCHANGED <<clock, svrlive, license_fo, stonith_installed, capture, conns, pVars,
                   s_pc, sStatics, sLocals, pbs_failover_active, s_exit, sec_hostid,
                   history>>

\* the active secondary, its state SV_STATE_SECIDLE, quiesces, acknowledges the
\* saved request and is replaced by a process that starts as a secondary
SecondaryRecycle ==
    /\ s_pc = "active"
    /\ s_sv_state = "SV_STATE_SECIDLE"
    /\ saved_takeover_req
    /\ tk' = (IF tk = "saved" /\ p_pc = "tfs_wait" THEN "acked" ELSE "none")
    /\ saved_takeover_req' = FALSE
    /\ pbs_failover_active' = 0
    /\ s_pc' = "recycled"
    /\ UNCHANGED <<envVars, conns, pVars, sStatics, sLocals, s_sv_state, s_exit, sec_hostid,
                   history>>

\* the primary process dies without a message
PrimaryCrash ==
    /\ p_pc \in {"up", "shutwait", "tfs_wait"}
    /\ PrimaryGone(conns, "killed")
    /\ UNCHANGED <<envVars, s_pc, sStatics, sLocals, sOther, history>>

Next ==
    \/ TimePasses
    \/ be_secondary_noconn
    \/ be_secondary_conn
    \/ be_secondary_regsent
    \/ be_secondary_handsk
    \/ be_secondary_nohsk
    \/ be_secondary_takeov
    \/ be_secondary_inact
    \/ be_secondary_inact_done
    \/ wait_request_timeout
    \/ wait_request_failed
    \/ read_reg_reply
    \/ read_fo_request
    \/ req_failover_takeover_reply
    \/ req_failover_takeover_done
    \/ primary_handshake
    \/ req_failover_Register
    \/ primary_close_conn
    \/ failover_send_shutdown
    \/ fo_shutdown_reply
    \/ PrimaryRecycle
    \/ takeover_from_secondary
    \/ main_secondary_unreachable
    \/ takeover_from_secondary_wait
    \/ req_failover_PrimIsBack
    \/ SecondaryRecycle
    \/ PrimaryCrash

Spec == Init /\ [][Next]_vars

SpecNoStonith == InitNoStonith /\ [][Next]_vars

SpecStartActive == InitStartActive /\ [][Next]_vars

\* registration only, for every pair of host identifiers
NextRegister ==
    \/ be_secondary_noconn
    \/ be_secondary_conn
    \/ be_secondary_regsent
    \/ wait_request_timeout
    \/ wait_request_failed
    \/ read_reg_reply
    \/ req_failover_Register
    \/ primary_close_conn

SpecHostid == InitHostid /\ [][NextRegister]_vars

\* registration and handshakes, the clock read every second
NextHandshake ==
    \/ TimePassesBySeconds
    \/ be_secondary_noconn
    \/ be_secondary_conn
    \/ be_secondary_regsent
    \/ be_secondary_handsk
    \/ be_secondary_nohsk
    \/ wait_request_timeout
    \/ read_reg_reply
    \/ read_fo_request
    \/ req_failover_Register
    \/ primary_handshake

SpecHandshake == Init /\ [][NextHandshake]_vars

\* handshakes that stop: the clock read every second once they are overdue
NextStagnant ==
    \/ TimePassesAroundHorizon
    \/ be_secondary_noconn
    \/ be_secondary_conn
    \/ be_secondary_regsent
    \/ be_secondary_handsk
    \/ be_secondary_nohsk
    \/ wait_request_timeout
    \/ read_reg_reply
    \/ read_fo_request
    \/ req_failover_Register
    \/ primary_handshake

SpecStagnant == Init /\ [][NextStagnant]_vars

\* the st_mtime of path_svrlive becomes any of the first MaxMtime seconds,
\* earlier ones included
svrlive_touched ==
    /\ \E mt \in 1 .. MaxMtime : svrlive' = mt
    /\ UNCHANGED <<clock, marker, license_fo, stonith_installed, capture, conns, tk,
                   pVars, s_pc, sStatics, sLocals, sOther, history>>

\* case SECONDARY_STATE_nohsk with stat(path_svrlive, &sb) == 0, run by both
\* readers on the same tick
be_secondary_nohsk_twin ==
    /\ LoopHead({SECONDARY_STATE_nohsk})
    /\ LET r == nohsk_stat_ok(svrlive,
                              NohskLocals(Secondary_state, sbtime, mytime, sbloop),
                              time_now, secondary_delay, sec_sock)
       IN  /\ Secondary_state' = r.state
           /\ sbtime' = r.sbtime
           /\ mytime' = r.mytime
           /\ sbloop' = r.sbloop
    /\ twin' = nohsk_stat_ok(svrlive + skew, twin, time_now, secondary_delay, sec_sock)
    /\ stat_rc' = 0
    /\ dial_tried' = FALSE
    /\ s_pc' = "wait"
    /\ UNCHANGED <<envVars, conns, tk, pVars, sec_sock, hd_time, takeov_on_nocontact,
                   secondary_delay, delay, rc, sOther, fence_ok_while_up, stonith_runs,
                   fopen_failed, told_inactive, drequest_handle,
                   hook_exit, skew, submit>>

NextSkew ==
    \/ TimePassesBySeconds
    \/ svrlive_touched
    \/ be_secondary_nohsk_twin
    \/ wait_request_timeout

SpecSkew == InitSkew /\ [][NextSkew]_vars

\* the secondary dials, registers and loses the primary, the clock read
\* every second around takeov_on_nocontact
NextDeadline ==
    \/ TimePassesAroundDeadline
    \/ be_secondary_noconn
    \/ be_secondary_conn
    \/ be_secondary_regsent
    \/ be_secondary_handsk
    \/ be_secondary_nohsk
    \/ wait_request_timeout
    \/ wait_request_failed
    \/ read_reg_reply
    \/ read_fo_request
    \/ req_failover_Register
    \/ primary_handshake
    \/ primary_close_conn
    \/ PrimaryCrash

SpecDeadline == Init /\ [][NextDeadline]_vars

\* registration and handshakes, with requests that a primary does not send
NextStray ==
    \/ TimePasses
    \/ be_secondary_noconn
    \/ be_secondary_conn
    \/ be_secondary_regsent
    \/ be_secondary_handsk
    \/ be_secondary_nohsk
    \/ wait_request_timeout
    \/ read_reg_reply
    \/ read_fo_request
    \/ req_failover_Register
    \/ primary_handshake
    \/ primary_close_conn
    \/ stray_request
    \/ stray_reply

SpecStray == Init /\ [][NextStray]_vars

(***************************************************************************)
(* Fair ticking.  wait_request(1, NULL) that returns after its timeout has *)
(* let time pass: the clock moves to the next instant at most once between *)
(* two ticks of be_secondary, and it has instants left after MaxTime for   *)
(* the ticks that follow a late start.                                     *)
(***************************************************************************)
LiveInstants == Instants \cup {2 * MaxTime, 3 * MaxTime}

NextInstant(t) ==
    CHOOSE i \in LiveInstants : i > t /\ \A j \in LiveInstants : j > t => i <= j

\* wait_request(1, NULL) returns 0 after its timeout, and time has passed
wait_request_elapsed ==
    /\ s_pc = "wait"
    /\ \E i \in LiveInstants : i > clock
    /\ clock' = NextInstant(clock)
    /\ s_pc' = "loop"
    /\ hook_exit' = 0
    /\ UNCHANGED <<svrlive, marker, license_fo, stonith_installed, capture, conns, tk,
                   pVars, sStatics, sLocals, sOther,
                   fence_ok_while_up, stonith_runs, fopen_failed, stat_rc,
                   told_inactive, dial_tried, drequest_handle, skew, twin, submit>>

\* the TAKEOV tick with a fencing hook that returns 0
be_secondary_takeov_fenced == be_secondary_takeov /\ rc' = 0

\* the primary registers the secondary, shakes hands and is killed; the
\* secondary ticks
NextLive ==
    \/ be_secondary_noconn
    \/ be_secondary_conn
    \/ be_secondary_regsent
    \/ be_secondary_handsk
    \/ be_secondary_nohsk
    \/ be_secondary_takeov_fenced
    \/ wait_request_timeout
    \/ wait_request_elapsed
    \/ read_reg_reply
    \/ read_fo_request
    \/ req_failover_Register
    \/ primary_handshake
    \/ primary_close_conn
    \/ PrimaryCrash

FairTicking ==
    /\ WF_vars(be_secondary_noconn)
    /\ WF_vars(be_secondary_handsk)
    /\ WF_vars(be_secondary_nohsk)
    /\ WF_vars(be_secondary_takeov_fenced)
    /\ WF_vars(wait_request_timeout)
    /\ SF_vars(wait_request_elapsed)

SpecLive == Init /\ [][NextLive]_vars /\ FairTicking

(***************************************************************************)
(* Properties.                                                             *)
(***************************************************************************)
\* a tick of be_secondary in the state st
TickIn(st) == s_pc = "loop" /\ Secondary_state = st /\ s_pc' # "loop"

\* a step in which check_and_invoke_stonith ran the program and returned non-zero
HookFailedStep == stonith_runs' # stonith_runs /\ rc' # 0

C3_ActiveOnlyAfterFailedDial ==
    [][/\ (pbs_failover_active' = 1 /\ pbs_failover_active = 0) =>
            /\ TickIn(SECONDARY_STATE_takeov)
            /\ sec_sock' < 0
            /\ s_pc' = "active"
       /\ (TickIn(SECONDARY_STATE_takeov) /\ sec_sock' >= 0) =>
            /\ Secondary_state' = SECONDARY_STATE_conn
            /\ s_pc' = "wait"
            /\ UNCHANGED <<stonith_runs, rc, capture, marker, pbs_failover_active>>]_vars

\* after a failed hook a TAKEOV tick has reached the primary again
C3_Witness ==
    /\ Secondary_state = SECONDARY_STATE_conn
    /\ s_pc = "wait"
    /\ sec_sock >= 0
    /\ rc # 0
    /\ mytime # 0

\* C4 as stated: the marker file exists exactly when pbs_failover_active is 1.
C4_Original == (marker # NoFile) <=> (pbs_failover_active = 1)

\* C4 amended: the marker file exists only while pbs_failover_active is 1, and
\* it is created only by the step that sets the flag.
C4_MarkerOnlyWhileActive ==
    /\ [](marker # NoFile => pbs_failover_active = 1)
    /\ [][(marker' # marker /\ marker' # NoFile) =>
            (pbs_failover_active = 0 /\ pbs_failover_active' = 1)]_vars

\* the marker was written, and FAILOVER_PrimIsBack removed it while the flag
\* is still 1
C4_Witness ==
    /\ marker = NoFile
    /\ ~fopen_failed
    /\ pbs_failover_active = 1
    /\ saved_takeover_req

\* a step in which the primary answers a FAILOVER_Register while a secondary
\* is registered
BusyRegisterStep == req_failover_Register /\ Secondary_connection >= 0

\* C5: a FAILOVER_Register arriving while a secondary is registered is
\* answered with the busy error, and leaves the registered connection, its
\* no-timeout mark and its close callback as they were; the rejected
\* connection gets no close callback, so that the primary closing a
\* connection other than the registered one keeps Secondary_connection.
C5_SecondRegisterBusy ==
    [][ /\ BusyRegisterStep =>
              /\ Secondary_connection' = Secondary_connection
              /\ conns'[Secondary_connection].p_authen = conns[Secondary_connection].p_authen
              /\ conns'[Secondary_connection].p_closefunc = conns[Secondary_connection].p_closefunc
              /\ conns'[Secondary_connection].p_func = conns[Secondary_connection].p_func
              /\ \A c \in ConnId :
                   Len(conns'[c].to_s) > Len(conns[c].to_s) =>
                      /\ conns'[c].to_s[Len(conns'[c].to_s)].code = "PBSE_OBJBUSY"
                      /\ c # Secondary_connection => conns'[c].p_closefunc # "close_secondary"
        /\ (primary_close_conn /\ Secondary_connection >= 0
               /\ conns'[Secondary_connection].p_open) =>
              Secondary_connection' = Secondary_connection
      ]_vars

\* C6: the end of the stream read in place of the registration reply, in
\* state REGSENT, moves the secondary to TAKEOV and does not end the process.
C6_EofInRegsentTakesOver ==
    [][(read_reg_reply /\ Secondary_state = SECONDARY_STATE_regsent /\ AtEof(sec_sock)) =>
          /\ Secondary_state' = SECONDARY_STATE_takeov
          /\ s_pc' # "exited"
          /\ s_exit' = s_exit
      ]_vars

C6_Witness ==
    /\ Secondary_state = SECONDARY_STATE_takeov
    /\ s_pc = "loop"
    /\ sec_sock \in ConnId
    /\ conns[sec_sock].s_func = "read_reg_reply"
    /\ ~conns[sec_sock].p_open
    /\ pbs_failover_active = 0

\* a handshake request read whole by the secondary
HandshakeRead ==
    /\ read_fo_request
    /\ ~AtEof(sec_sock)
    /\ Head(conns[sec_sock].to_s).tag = "FAILOVER_HandShake"
    /\ sec_sock' = sec_sock

\* C7: while handshakes keep arriving the secondary stays in HANDSK (a tick
\* that finds the last one no older than HANDSHAKE_TIME keeps the state) or
\* returns to it (a handshake read in HANDSK or NOHSK leaves it in HANDSK),
\* and once they stop it leaves HANDSK (the tick that finds the last one
\* 2 * HANDSHAKE_TIME old moves to NOHSK).
C7_HandskWhileHandshakes ==
    [][ /\ (TickIn(SECONDARY_STATE_handsk) /\ time_now <= hd_time + HANDSHAKE_TIME) =>
              Secondary_state' = SECONDARY_STATE_handsk
        /\ (HandshakeRead /\ Secondary_state \in {SECONDARY_STATE_handsk, SECONDARY_STATE_nohsk}) =>
              (Secondary_state' = SECONDARY_STATE_handsk /\ hd_time' = time_now)
        /\ (TickIn(SECONDARY_STATE_handsk) /\ time_now >= hd_time + 2 * HANDSHAKE_TIME) =>
              Secondary_state' = SECONDARY_STATE_nohsk
      ]_vars

C7_Witness ==
    /\ Secondary_state = SECONDARY_STATE_handsk
    /\ sbloop > 0
    /\ hd_time > StartTime
    /\ s_pc = "loop"

\* a step in which the secondary reads a good registration reply and writes
\* license.fo
RegisterReplyStored ==
    /\ read_reg_reply
    /\ Secondary_state' = SECONDARY_STATE_handsk
    /\ s_pc' # "exited"

\* C8: license.fo holds the exclusive or of the two host ids, it is written
\* once by each good registration reply and by nothing else, and the primary's
\* host id survives the trip through its decimal text.
C8_LicenseIsXor ==
    /\ [](license_fo # -1 => license_fo = Xor(hostidnum, sec_hostid))
    /\ [](AsUnsignedLong(atol(sprintf_ld(hostidnum))) = hostidnum)
    /\ [][ /\ RegisterReplyStored => license_fo' = Xor(hostidnum, sec_hostid)
           /\ (license_fo' # license_fo /\ license_fo' # -1) => RegisterReplyStored
         ]_vars

C8_Witness ==
    /\ license_fo # -1
    /\ license_fo = Xor(hostidnum, sec_hostid)
    /\ AsLong(hostidnum) < 0
    /\ sec_hostid # 0
    /\ Secondary_state = SECONDARY_STATE_handsk

\* C9: started with a delay of -1, the secondary that fails to reach the
\* primary in a NOCONN tick goes to TAKEOV in that tick, whatever the time.
C9_StartActive ==
    [][(TickIn(SECONDARY_STATE_noconn) /\ delay = -1 /\ sec_sock' < 0) =>
          Secondary_state' = SECONDARY_STATE_takeov
      ]_vars

C9_Witness ==
    /\ delay = -1
    /\ Secondary_state = SECONDARY_STATE_takeov
    /\ time_now <= takeov_on_nocontact
    /\ time_now = StartTime
    /\ license_fo = -1
    /\ stonith_runs = 0
    /\ pbs_failover_active = 0

\* C10: when the fencing program is not there (the hook returns without
\* running anything), the TAKEOV tick that fails to reach the primary goes
\* on to become active in the same tick.
C10_AbsentHookIsOk ==
    [][(TickIn(SECONDARY_STATE_takeov) /\ sec_sock' < 0 /\ stonith_runs' = stonith_runs) =>
          /\ rc' = 0
          /\ pbs_failover_active' = 1
          /\ s_pc' = "active"
          /\ (marker' = server_host \/ fopen_failed')
      ]_vars

C10_Witness ==
    /\ ~stonith_installed
    /\ stonith_runs = 0
    /\ rc = 0
    /\ pbs_failover_active = 1
    /\ marker = server_host
    /\ s_pc = "active"

\* a NOHSK tick whose stat of svrlive succeeds and shows the mtime seen before
StagnantTick ==
    /\ TickIn(SECONDARY_STATE_nohsk)
    /\ stat_rc' = 0
    /\ svrlive <= sbtime

\* C11: a NOHSK tick moves to TAKEOV only if its stat succeeded, the mtime
\* is the one seen before and time_now > mytime + secondary_delay; such a
\* tick at time_now = mytime + secondary_delay leaves the state at NOHSK.
C11_StagnantStrict ==
    [][ /\ (TickIn(SECONDARY_STATE_nohsk) /\ Secondary_state' = SECONDARY_STATE_takeov) =>
              (StagnantTick /\ time_now > mytime + secondary_delay)
        /\ (StagnantTick /\ time_now = mytime + secondary_delay) =>
              Secondary_state' = SECONDARY_STATE_nohsk
      ]_vars

C11_Witness ==
    /\ Secondary_state = SECONDARY_STATE_nohsk
    /\ s_pc = "wait"
    /\ stat_rc = 0
    /\ svrlive <= sbtime
    /\ secondary_delay > 0
    /\ time_now = mytime + secondary_delay

\* the statement of C12 as it was made: every handshake tick of the primary
\* that finds the marker file there sets the server state to SECIDLE
C12_Original ==
    [][(primary_handshake /\ marker # NoFile) => p_sv_state' = "SV_STATE_SECIDLE"]_vars

\* C12: a handshake tick of the primary that starts with a secondary
\* registered (Secondary_connection >= 0) and the marker file there sets the
\* server state to SECIDLE; a tick that starts with no secondary registered
\* leaves the server state as it is, marker or not.
C12_MarkerSeenWhenRegistered ==
    [][ /\ (primary_handshake /\ marker # NoFile /\ Secondary_connection >= 0) =>
              p_sv_state' = "SV_STATE_SECIDLE"
        /\ (primary_handshake /\ Secondary_connection < 0) =>
              p_sv_state' = p_sv_state
      ]_vars

C12_Witness ==
    /\ p_pc = "up"
    /\ p_sv_state = "SV_STATE_SECIDLE"
    /\ marker # NoFile
    /\ pbs_failover_active = 1

\* the secondary reads the end of the stream while it waits, in req_failover,
\* for the primary to close after FAILOVER_SecdTakeOver
EofAfterTakeOver ==
    /\ s_pc = "tkwait"
    /\ read_fo_request
    /\ AtEof(sec_sock)

\* C13: after FAILOVER_SecdTakeOver the secondary acknowledges with the state
\* at TAKEOV; the end of the stream that the primary's close brings leaves
\* the state at TAKEOV; and the TAKEOV tick whose dial fails and whose
\* fencing returns 0 makes the secondary active and writes the marker with
\* the host name.
C13_TakeOverThenClose ==
    [][ /\ req_failover_takeover_reply =>
              /\ Secondary_state' = SECONDARY_STATE_takeov
              /\ conns[sec_sock].p_open =>
                    conns'[sec_sock].to_p =
                       Append(conns[sec_sock].to_p, Reply("PBSE_NONE", "NULL", <<>>))
        /\ EofAfterTakeOver => Secondary_state' = SECONDARY_STATE_takeov
        /\ (TickIn(SECONDARY_STATE_takeov) /\ sec_sock' < 0 /\ rc' = 0) =>
              /\ pbs_failover_active' = 1
              /\ (marker' = server_host \/ fopen_failed')
      ]_vars

\* the primary is gone for good and nothing it sent is left to read
PrimaryStopped ==
    /\ p_pc = "down"
    /\ s_pc \in {"loop", "wait"}
    /\ sec_sock \in ConnId => conns[sec_sock].to_s = <<>>

\* C14: under fair ticking, a secondary in HANDSK whose primary has stopped
\* for good comes to NOHSK; from NOHSK, the fencing hook returning 0, it
\* becomes active, and it becomes active only by a tick in TAKEOV.
C14_EventuallyActive ==
    /\ (Secondary_state = SECONDARY_STATE_handsk /\ PrimaryStopped /\ clock <= Horizon)
          ~> (Secondary_state = SECONDARY_STATE_nohsk /\ PrimaryStopped /\ clock <= MaxTime)
    /\ (Secondary_state = SECONDARY_STATE_nohsk /\ PrimaryStopped /\ clock <= MaxTime)
          ~> (s_pc = "active" /\ pbs_failover_active = 1
                 /\ Secondary_state = SECONDARY_STATE_takeov)
    /\ [][(s_pc # "active" /\ s_pc' = "active") => TickIn(SECONDARY_STATE_takeov)]_vars

C14_Witness ==
    /\ s_pc = "active"
    /\ pbs_failover_active = 1
    /\ p_pc = "down"
    /\ p_exit = "killed"
    /\ license_fo # -1
    /\ sbtime > 0
    /\ stonith_runs = 1
    /\ Secondary_state = SECONDARY_STATE_takeov

GoInactiveRead ==
    /\ read_fo_request
    /\ ~AtEof(sec_sock)
    /\ sec_sock' = sec_sock
    /\ Head(conns[sec_sock].to_s).tag = "FAILOVER_SecdGoInactive"

\* C16 as stated: a secondary told to go inactive goes INACT, then IDLE, and
\* is never in TAKEOV nor active until a dial of the primary has succeeded;
\* a failed dial in IDLE leaves it in IDLE.
C16_InactiveUntilRedial ==
    /\ [](told_inactive => (Secondary_state # SECONDARY_STATE_takeov /\ s_pc # "active"))
    /\ [][ /\ GoInactiveRead => Secondary_state' = SECONDARY_STATE_inact
           /\ TickIn(SECONDARY_STATE_inact) => s_pc' = "inactwait"
           /\ be_secondary_inact_done => Secondary_state' = SECONDARY_STATE_idle
           /\ (TickIn(SECONDARY_STATE_idle) /\ sec_sock' < 0)
                 => Secondary_state' = SECONDARY_STATE_idle ]_vars

\* read_fo_request hands a FAILOVER_SecdTakeOver to req_failover, which
\* goes into sleep(10)
TakeOverRead == read_fo_request /\ s_pc' = "tksleep"

\* C17: on FAILOVER_SecdTakeOver the secondary sends its acknowledgement
\* first: the reply is on the connection when sleep(10) begins, and the
\* secondary moves to TAKEOV only after the sleep.
C17_ReplyBeforeSleep ==
    [][ /\ TakeOverRead
             => /\ Secondary_state' = Secondary_state
                /\ conns[sec_sock].p_open
                      => conns'[sec_sock].to_p =
                            Append(conns[sec_sock].to_p, Reply("PBSE_NONE", "NULL", <<>>))
        /\ req_failover_takeover_reply => Secondary_state' = SECONDARY_STATE_takeov ]_vars

\* C18: the active secondary that reads FAILOVER_PrimIsBack sets the server
\* state to SV_STATE_SECIDLE, removes the marker file and saves the request
\* in saved_takeover_req without replying; the reply is sent later, by the
\* caller that holds the saved request.
C18_PrimIsBackSaved ==
    [][ /\ (s_pc = "active" /\ tk = "sent" /\ tk' # tk)
             => /\ s_sv_state' = "SV_STATE_SECIDLE"
                /\ marker' = NoFile
                /\ saved_takeover_req'
                /\ tk' = "saved"
                /\ conns' = conns
                /\ pbs_failover_active' = pbs_failover_active
        /\ (tk # "acked" /\ tk' = "acked")
             => (tk = "saved" /\ saved_takeover_req /\ ~saved_takeover_req') ]_vars

C18_Witness ==
    /\ s_pc = "active"
    /\ tk = "saved"
    /\ saved_takeover_req
    /\ marker = NoFile
    /\ s_sv_state = "SV_STATE_SECIDLE"
    /\ p_pc = "tfs_wait"
    /\ goidle_ack = 1

\* read_fo_request hands req_failover a request whose tag is
\* FAILOVER_Register or one it does not know
StrayRead ==
    /\ read_fo_request
    /\ ~AtEof(sec_sock)
    /\ sec_sock' = sec_sock
    /\ Head(conns[sec_sock].to_s).tag \in {"FAILOVER_Register", "FAILOVER_Unknown"}

\* C19: a request at the secondary whose tag is FAILOVER_Register or unknown
\* is answered with the reply PBSE_SYSTEM, and changes neither
\* Secondary_state nor the marks and the read function of the connection.
C19_StrayRejected ==
    [][StrayRead =>
          /\ conns[sec_sock].p_open
                => conns'[sec_sock].to_p = <<Reply("PBSE_SYSTEM", "NULL", <<>>)>>
          /\ Secondary_state' = Secondary_state
          /\ conns'[sec_sock].s_func = conns[sec_sock].s_func
          /\ conns'[sec_sock].s_authen = conns[sec_sock].s_authen]_vars

\* read_reg_reply reads the reply m, not the end of the stream
RegReplyRead(m) ==
    /\ read_reg_reply
    /\ ~AtEof(sec_sock)
    /\ Head(conns[sec_sock].to_s) = m

\* C20: in read_reg_reply a reply without error and without text, or one
\* with the code PBSE_UNKREQ, ends the process with a non-zero exit code;
\* any other error, the end of the stream in REGSENT excepted, sets NOCONN
\* and the process goes on.
C20_RegReplyErrors ==
    [][ /\ \A code \in {"PBSE_NONE", "PBSE_UNKREQ"} :
             RegReplyRead(Reply(code, "NULL", <<>>)) => (s_pc' = "exited" /\ s_exit' # 0)
        /\ (RegReplyRead(Reply("PBSE_SYSTEM", "NULL", <<>>))
               \/ (read_reg_reply /\ AtEof(sec_sock)
                      /\ Secondary_state # SECONDARY_STATE_regsent))
             => (Secondary_state' = SECONDARY_STATE_noconn /\ s_pc' # "exited") ]_vars

\* C21: a HANDSK tick moves to NOHSK exactly when
\* time_now >= hd_time + 2 * HANDSHAKE_TIME, the boundary included; any
\* other HANDSK tick changes neither the state, the socket, the handshake
\* time nor what the NOHSK ticks keep.
C21_HandskTickBoundary ==
    [][TickIn(SECONDARY_STATE_handsk) =>
          /\ (Secondary_state' = SECONDARY_STATE_nohsk)
                <=> (time_now >= hd_time + 2 * HANDSHAKE_TIME)
          /\ Secondary_state' \in {SECONDARY_STATE_handsk, SECONDARY_STATE_nohsk}
          /\ UNCHANGED <<sec_sock, hd_time, conns, sbloop, sbtime, mytime,
                         pbs_failover_active>>]_vars

C21_Witness ==
    /\ Secondary_state = SECONDARY_STATE_nohsk
    /\ time_now = hd_time + 2 * HANDSHAKE_TIME
    /\ s_pc = "wait"
    /\ sec_sock >= 0
    /\ mytime = 0

\* a tick in NOCONN whose dial of the primary failed
FailedDialInNoconn == TickIn(SECONDARY_STATE_noconn) /\ sec_sock' < 0

\* C22: with delay other than -1, a failed dial in NOCONN moves to TAKEOV
\* exactly when time_now > takeov_on_nocontact and otherwise leaves NOCONN;
\* takeov_on_nocontact is the start time + 300 + secondary_delay in every
\* state.
C22_TakeoverDeadline ==
    /\ [](takeov_on_nocontact = StartTime + TAKEOV_WAIT + secondary_delay)
    /\ [][(FailedDialInNoconn /\ delay # -1) =>
             /\ (Secondary_state' = SECONDARY_STATE_takeov)
                   <=> (time_now > takeov_on_nocontact)
             /\ Secondary_state' \in {SECONDARY_STATE_noconn, SECONDARY_STATE_takeov}]_vars

C22_Witness ==
    /\ Secondary_state = SECONDARY_STATE_noconn
    /\ s_pc = "wait"
    /\ sec_sock = -1
    /\ delay # -1
    /\ time_now = takeov_on_nocontact

\* a NOHSK tick that is the third one and finds no socket open
ThirdTickNoSocket ==
    TickIn(SECONDARY_STATE_nohsk) /\ sec_sock = -1 /\ loop' = 0

\* C23 as stated: every third NOHSK tick without a socket dials the primary
\* and moves to CONN when the dial succeeds, whatever stat returned.
C23_Original ==
    [][ThirdTickNoSocket =>
          /\ dial_tried'
          /\ sec_sock' >= 0 => Secondary_state' = SECONDARY_STATE_conn]_vars

\* C23 amended: a NOHSK tick dials the primary exactly when stat failed,
\* time_now is not past hd_time + secondary_delay, no socket is open and the
\* tick is a third one; a dial that succeeds moves to CONN with read_reg_reply
\* on the new socket, and a tick that does not dial leaves the socket alone.
C23_DialWhenStatFails ==
    [][TickIn(SECONDARY_STATE_nohsk) =>
          /\ dial_tried' <=> (/\ stat_rc' = -1
                              /\ time_now <= hd_time + secondary_delay
                              /\ sec_sock = -1
                              /\ loop' = 0)
          /\ (dial_tried' /\ sec_sock' >= 0)
                => /\ Secondary_state' = SECONDARY_STATE_conn
                   /\ conns'[sec_sock'].s_func = "read_reg_reply"
          /\ ~dial_tried' => sec_sock' = sec_sock]_vars

C23_Witness ==
    /\ Secondary_state = SECONDARY_STATE_conn
    /\ s_pc = "wait"
    /\ dial_tried
    /\ stat_rc = -1
    /\ loop = 0
    /\ sec_sock >= 0
    /\ time_now <= hd_time + secondary_delay

\* C24: two readers in NOHSK, the second of which sees every st_mtime later
\* by the same skew, are in the same Secondary_state after every tick, with
\* the same mytime and sbloop; their sbtime differ by the skew.
C24_SkewIndependent ==
    /\ twin.state = Secondary_state
    /\ twin.mytime = mytime
    /\ twin.sbloop = sbloop
    /\ twin.sbtime = (IF sbtime = 0 THEN 0 ELSE sbtime + skew)

C24_Witness ==
    /\ skew > 0
    /\ Secondary_state = SECONDARY_STATE_takeov
    /\ twin.state = SECONDARY_STATE_takeov
    /\ sbloop > 1
    /\ twin.sbtime = sbtime + skew
    /\ svrlive < sbtime

\* C25: every run of primary_handshake sets the mtime of the liveness file
\* to the present time and leaves its one work task set for
\* time_now + HANDSHAKE_TIME, with or without a secondary connected and
\* whether the handshake was sent or the send failed.
C25_TouchAndReschedule ==
    [][primary_handshake =>
          /\ svrlive' = time_now
          /\ hs_due' = time_now + HANDSHAKE_TIME
          /\ p_pc' = p_pc]_vars

\* the run in which the send of the handshake failed
C25_Witness ==
    /\ Secondary_connection = -2
    /\ p_pc = "up"
    /\ clock > StartTime
    /\ svrlive = clock
    /\ hs_due = clock + HANDSHAKE_TIME

\* C26: a handshake send that fails closes the channel and leaves no peer;
\* a FAILOVER_Register read after it is accepted; failover_send_shutdown
\* then returns 1, the primary going down at once, without giving the
\* handle to issue_Drequest.
C26_NoPeerAfterSendFailure ==
    [][ /\ (primary_handshake /\ Secondary_connection >= 0 /\ Secondary_connection' < 0)
             => ~conns'[Secondary_connection].p_open
        /\ (req_failover_Register /\ Secondary_connection = -2)
             => Secondary_connection' \in ConnId
        /\ (failover_send_shutdown /\ Secondary_connection = -2)
             => /\ p_pc' = "down"
                /\ drequest_handle' = drequest_handle ]_vars

\* C27: the secondary has at most one socket open, the one sec_sock names:
\* a dial leaves no socket opened earlier open; the primary records a
\* connection as the secondary's only while it has none recorded.
C27_OneControlChannel ==
    /\ [](/\ Cardinality({c \in ConnId : conns[c].s_open}) <= 1
          /\ \A c \in ConnId : conns[c].s_open => c = sec_sock)
    /\ [][ /\ \A c \in ConnId :
                (~conns[c].used /\ conns'[c].used)
                    => \A d \in ConnId \ {c} : ~conns'[d].s_open
           /\ (Secondary_connection' \in ConnId
                 /\ Secondary_connection' # Secondary_connection)
                => Secondary_connection < 0 ]_vars

\* the secondary closed its first socket, dialled again and was registered anew
C27_Witness ==
    /\ conns[0].used
    /\ ~conns[0].s_open
    /\ sec_sock = 1
    /\ conns[1].s_open
    /\ Secondary_connection = 1
    /\ Secondary_state = SECONDARY_STATE_handsk

C29_HookResultAndCapture ==
    [][ (stonith_runs' # stonith_runs)
           => /\ (rc' # 0) <=> (hook_exit' # 0)
              /\ ~capture' ]_vars

\* C30: whenever Secondary_state is REGSENT or HANDSK, sec_sock is not -1
\* and, while the process lives, the socket is open; every step of the
\* living secondary that closes the socket or resets sec_sock leaves the
\* state outside REGSENT and HANDSK.
C30_SocketOpenWhileAwaiting ==
    /\ [](Secondary_state \in {SECONDARY_STATE_regsent, SECONDARY_STATE_handsk}
            => /\ sec_sock # -1
               /\ s_pc # "exited" => (sec_sock \in ConnId /\ conns[sec_sock].s_open))
    /\ [][ (/\ s_pc' # "exited"
            /\ sec_sock # -1
            /\ \/ sec_sock' = -1
               \/ (sec_sock \in ConnId /\ conns[sec_sock].s_open
                     /\ ~conns'[sec_sock].s_open))
             => Secondary_state' \notin {SECONDARY_STATE_regsent,
                                      SECONDARY_STATE_handsk} ]_vars

\* the end of the stream was read in HANDSK: the socket is closed and the
\* state is NOHSK
C30_Witness ==
    /\ Secondary_state = SECONDARY_STATE_nohsk
    /\ sec_sock = -1
    /\ conns[0].used
    /\ ~conns[0].s_open
    /\ license_fo # -1
    /\ s_pc = "loop"
    /\ loop = 0
    /\ sbloop = 0

(***************************************************************************)
(* The loss of the control channel with the primary alive.  The clock      *)
(* moves by HANDSHAKE_TIME while the secondary is in wait_request; the     *)
(* primary accepts every connection, and nothing fails at the secondary.   *)
(***************************************************************************)
MaxBeats == 9

\* wait_request(1, NULL) returns after the time of a handshake has passed
wait_request_beat ==
    /\ s_pc = "wait"
    /\ clock + HANDSHAKE_TIME <= StartTime + MaxBeats * HANDSHAKE_TIME
    /\ clock' = clock + HANDSHAKE_TIME
    /\ s_pc' = "loop"
    /\ hook_exit' = 0
    /\ UNCHANGED <<svrlive, marker, license_fo, stonith_installed, capture, conns, tk,
                   pVars, sStatics, sLocals, sOther,
                   fence_ok_while_up, stonith_runs, fopen_failed, stat_rc,
                   told_inactive, dial_tried, drequest_handle, skew, twin, submit>>

\* the ticks whose dial, if they dial, reaches the primary
be_secondary_noconn_reached == be_secondary_noconn /\ sec_sock' >= 0

be_secondary_nohsk_reached == be_secondary_nohsk /\ (dial_tried' => sec_sock' >= 0)

be_secondary_takeov_reached == be_secondary_takeov /\ sec_sock' >= 0

\* the CONN tick whose put_failover returns 0
be_secondary_conn_sent == be_secondary_conn /\ sec_sock' >= 0

\* read_reg_reply that does not end in exit(1)
read_reg_reply_kept == read_reg_reply /\ s_pc' # "exited"

\* read_fo_request without a read or decode error
read_fo_request_decoded == read_fo_request /\ (sec_sock' = -1 => AtEof(sec_sock))

NextRejoin ==
    \/ be_secondary_noconn_reached
    \/ be_secondary_conn_sent
    \/ be_secondary_regsent
    \/ be_secondary_handsk
    \/ be_secondary_nohsk_reached
    \/ be_secondary_takeov_reached
    \/ wait_request_beat
    \/ read_reg_reply_kept
    \/ read_fo_request_decoded
    \/ req_failover_Register
    \/ primary_handshake
    \/ primary_close_conn

\* the loop of be_secondary goes on, time passes in wait_request, which
\* calls the handler of a readable socket; the primary serves its
\* requests and its handshake task
FairRejoin ==
    /\ WF_vars(be_secondary_noconn_reached)
    /\ WF_vars(be_secondary_conn_sent)
    /\ WF_vars(be_secondary_regsent)
    /\ WF_vars(be_secondary_handsk)
    /\ WF_vars(be_secondary_nohsk_reached)
    /\ WF_vars(be_secondary_takeov_reached)
    /\ SF_vars(wait_request_beat)
    /\ SF_vars(read_reg_reply_kept)
    /\ SF_vars(read_fo_request_decoded)
    /\ WF_vars(req_failover_Register)
    /\ WF_vars(primary_handshake)
    /\ WF_vars(primary_close_conn)

SpecRejoin == Init /\ [][NextRejoin]_vars /\ FairRejoin

\* the first connection is lost: the secondary has read the end of the
\* stream on it and has not dialled again
ChannelLost ==
    /\ conns[0].used
    /\ ~conns[0].s_open
    /\ ~conns[1].used
    /\ sec_sock = -1
    /\ Secondary_state = SECONDARY_STATE_nohsk

\* C31: once the control channel is lost with the primary alive, touching
\* the liveness file and accepting connections, the secondary under fair
\* ticking dials again, is registered and is back in HANDSK on the new
\* connection; it never becomes active.
C31_RejoinsWithoutTakeover ==
    /\ (ChannelLost /\ clock + 8 * HANDSHAKE_TIME <= StartTime + MaxBeats * HANDSHAKE_TIME)
          ~> (Secondary_state = SECONDARY_STATE_handsk /\ sec_sock = 1)
    /\ [](pbs_failover_active = 0 /\ s_pc # "active")

\* the secondary is back in HANDSK on its second connection, registered at
\* the primary, after handshakes were missed
C31_Witness ==
    /\ Secondary_state = SECONDARY_STATE_handsk
    /\ sec_sock = 1
    /\ Secondary_connection = 1
    /\ conns[0].used
    /\ ~conns[0].s_open
    /\ pbs_failover_active = 0

(***************************************************************************)
(* pbs_submit and pbs_submit_with_cred of the client library.  submit      *)
(* holds the call: where it is, its arguments, the lock count of the       *)
(* connection, the requests sent so far, what pbs_submit returned (result) *)
(* and what the function called returned (ret).                            *)
(***************************************************************************)
MaxLocks == 1

\* the calls: which function, with or without a script, the length of the
\* credential, a thread context that has its cred_info or not, and the lock
\* count of the connection as the call finds it
SubmitCalls ==
    { [NoSubmit EXCEPT !.pc = "call", !.entry = e, !.script = sc, !.credlen = cl,
                       !.th_cred_info = ci, !.found = n, !.locks = n] :
        e \in {"pbs_submit", "pbs_submit_with_cred"}, sc \in BOOLEAN, cl \in {0, 1},
        ci \in BOOLEAN, n \in 0 .. MaxLocks }

InitSubmit ==
    /\ InitCommon(1, TRUE)
    /\ Secondary_state = SECONDARY_STATE_noconn
    /\ skew = 0
    /\ twin = NohskLocals(SECONDARY_STATE_noconn, 0, 0, 0)
    /\ hostidnum = WordMod - 2
    /\ sec_hostid = 3
    /\ submit \in SubmitCalls

\* pbs_client_thread_unlock_connection(c): it returns 0, or fails with the
\* lock held or released
UnlockResults == {"ok", "failed_held", "failed_released"}

\* pbs_client_thread_lock_connection(c) == 0
Lock(s) == [s EXCEPT !.locks = @ + 1, !.acquired = @ + 1]

Unlock(s, u) ==
    [s EXCEPT !.unlocks = @ + 1,
              !.locks = IF u = "failed_held" THEN @ ELSE @ - 1,
              !.unlock_failed = @ \/ u # "ok"]

\* pbs_submit returns r: to pbs_submit_with_cred, or to the caller
Return(s, r) ==
    IF s.entry = "pbs_submit_with_cred"
    THEN [s EXCEPT !.pc = "back", !.result = r]
    ELSE [s EXCEPT !.pc = "returned", !.result = r, !.ret = r]

\* a variant that returns with the lock held
error_locked(s, u) == Return(s, "NULL")

\* error: (void)pbs_client_thread_unlock_connection(c); return (char *)NULL;
error(s, u) == Return(Unlock(s, u), "NULL")

\* a variant that goes to the commit whatever the credential
AfterScript_commit(s) == "commit"

\* if (cred_info && cred_info->cred_len > 0) PBSD_jcred(...); PBSD_commit(...)
AfterScript(s) == IF s.th_cred_info /\ s.cred_len > 0 THEN "jcred" ELSE "commit"

\* a step of the call: the server's state is not touched
SubmitStep(next) ==
    /\ submit' \in next
    /\ UNCHANGED <<envVars, conns, tk, pVars, s_pc, sStatics, sLocals, sOther,
                   fence_ok_while_up, stonith_runs, fopen_failed, stat_rc,
                   told_inactive, dial_tried, drequest_handle, hook_exit, skew, twin>>

\* pbs_submit_with_cred, up to the call of pbs_submit
pbs_submit_with_cred ==
    /\ submit.pc = "call"
    /\ submit.entry = "pbs_submit_with_cred"
    /\ \E init_ok \in BOOLEAN, lock_ok \in BOOLEAN, ptr_ok \in BOOLEAN,
          malloc_ok \in BOOLEAN, u \in UnlockResults :
         SubmitStep({
           IF ~init_ok \/ ~lock_ok
           THEN [submit EXCEPT !.pc = "returned", !.ret = "NULL"]
           ELSE IF ~ptr_ok \/ (~submit.th_cred_info /\ ~malloc_ok)
           THEN [Unlock(Lock(submit), u) EXCEPT !.pc = "returned", !.ret = "NULL"]
           ELSE [Lock(submit) EXCEPT !.th_cred_info = TRUE,
                                     !.cred_len = submit.credlen,
                                     !.pc = "pbs_submit"] })

\* pbs_submit, up to the call of PBSD_queuejob
pbs_submit ==
    /\ \/ submit.pc = "pbs_submit"
       \/ submit.pc = "call" /\ submit.entry = "pbs_submit"
    /\ \E init_ok \in BOOLEAN, ptr_ok \in BOOLEAN, verify_ok \in BOOLEAN,
          lock_ok \in BOOLEAN, access_ok \in BOOLEAN, u \in UnlockResults :
         SubmitStep({
           IF ~init_ok \/ ~ptr_ok \/ ~verify_ok \/ ~lock_ok
           THEN Return(submit, "NULL")
           ELSE IF submit.script /\ ~access_ok
           THEN error(Lock(submit), u)
           ELSE [Lock(submit) EXCEPT !.pc = "queuejob"] })

\* the request of a step was sent
Sent(s, step) == [s EXCEPT !.steps = Append(@, step)]

\* the request of a step was sent and the server accepted it
Accepted(s, step, then) ==
    [s EXCEPT !.steps = Append(@, step), !.ok_steps = Append(@, step), !.pc = then]

\* return_jobid = PBSD_queuejob(c, "", destination, attrib, extend, 0, NULL)
PBSD_queuejob ==
    /\ submit.pc = "queuejob"
    /\ \E ok \in BOOLEAN, u \in UnlockResults :
         SubmitStep({
           IF ok
           THEN [Accepted(submit, "queuejob",
                          IF submit.script THEN "jscript" ELSE AfterScript(submit))
                   EXCEPT !.return_jobid = "jobid"]
           ELSE error(Sent(submit, "queuejob"), u) })

\* rc = PBSD_jscript(c, script, 0, NULL)
PBSD_jscript ==
    /\ submit.pc = "jscript"
    /\ \E ok \in BOOLEAN, u \in UnlockResults :
         SubmitStep({
           IF ok
           THEN Accepted(submit, "jscript", AfterScript(submit))
           ELSE error(Sent(submit, "jscript"), u) })

\* PBSD_jcred(c, cred_info->cred_type, cred_info->cred_buf, cred_info->cred_len, 0, NULL)
PBSD_jcred ==
    /\ submit.pc = "jcred"
    /\ \E ok \in BOOLEAN, u \in UnlockResults :
         SubmitStep({
           IF ok
           THEN Accepted(submit, "jcred", "commit")
           ELSE error(Sent(submit, "jcred"), u) })

\* PBSD_commit(c, return_jobid, 0, NULL) and the return of pbs_submit
PBSD_commit ==
    /\ submit.pc = "commit"
    /\ \E ok \in BOOLEAN, u \in UnlockResults :
         SubmitStep({
           IF ok
           THEN Return(Unlock(Accepted(submit, "commit", "commit"), u),
                       IF u = "ok" THEN submit.return_jobid ELSE "NULL")
           ELSE error(Sent(submit, "commit"), u) })

\* pbs_submit_with_cred, from the return of pbs_submit
pbs_submit_with_cred_return ==
    /\ submit.pc = "back"
    /\ \E u \in UnlockResults :
         SubmitStep({
           [Unlock(submit, u) EXCEPT !.cred_len = 0,
                                     !.pc = "returned",
                                     !.ret = IF u = "ok" THEN submit.result
                                             ELSE "NULL"] })

NextSubmit ==
    \/ pbs_submit_with_cred
    \/ pbs_submit
    \/ PBSD_queuejob
    \/ PBSD_jscript
    \/ PBSD_jcred
    \/ PBSD_commit
    \/ pbs_submit_with_cred_return

SpecSubmit == InitSubmit /\ [][NextSubmit]_vars

\* the requests of a submission that goes through, in their order
ExpectedSteps(s) ==
    <<"queuejob">>
    \o (IF s.script THEN <<"jscript">> ELSE <<>>)
    \o (IF s.entry = "pbs_submit_with_cred" /\ s.credlen > 0 THEN <<"jcred">> ELSE <<>>)
    \o <<"commit">>

IsPrefix(a, b) == Len(a) <= Len(b) /\ a = SubSeq(b, 1, Len(a))

\* C32: pbs_submit returns a job id only if queue-job, the script transfer
\* when a script is given, the credential transfer when a credential is set
\* and the commit were sent in this order and all accepted; once a step has
\* failed no further step is sent and pbs_submit returns NULL.
C32_StepsInOrder ==
    /\ [](/\ IsPrefix(submit.steps, ExpectedSteps(submit))
          /\ IsPrefix(submit.ok_steps, submit.steps)
          /\ submit.result = "jobid" => submit.ok_steps = ExpectedSteps(submit)
          /\ submit.ok_steps # submit.steps
                => /\ submit.pc \in {"back", "returned"}
                   /\ submit.result = "NULL")
    /\ [][submit.ok_steps # submit.steps => submit'.steps = submit.steps]_vars

\* a submission with a script and a credential went through
C32_Witness ==
    /\ submit.pc = "returned"
    /\ submit.entry = "pbs_submit_with_cred"
    /\ submit.ret = "jobid"
    /\ submit.ok_steps = <<"queuejob", "jscript", "jcred", "commit">>

\* C33: when pbs_submit or pbs_submit_with_cred has returned, the connection
\* was unlocked once for every lock acquired, and its lock count is the one
\* the call found unless an unlock failed; no unlock comes before its lock.
C33_LocksBalanced ==
    /\ submit.unlocks <= submit.acquired
    /\ submit.pc = "returned"
          => /\ submit.unlocks = submit.acquired
             /\ ~submit.unlock_failed => submit.locks = submit.found

\* pbs_submit_with_cred returned NULL after the commit failed: both locks
\* were released
C33_Witness ==
    /\ submit.pc = "returned"
    /\ submit.entry = "pbs_submit_with_cred"
    /\ submit.ret = "NULL"
    /\ submit.steps # submit.ok_steps
    /\ submit.acquired = 2
    /\ submit.unlocks = 2
    /\ ~submit.unlock_failed
    /\ submit.found = 1
    /\ submit.locks = 1

====
